---- MODULE Spec2Model ----
(***************************************************************************)
(* TriviaBot: the session registry of TriviaCog (src/src/bot/cogs/         *)
(* trivia.py), the scoring functions (src/src/utils/scoring.py) and the    *)
(* persistence of completed games (src/src/database/database.py).          *)
(*                                                                         *)
(* Ten specifications share the definitions of this module.                *)
(*                                                                         *)
(*   Spec    the command handlers /trivia, /answer, /skip and the timeout  *)
(*           task as asyncio coroutines: one action per run of a handler   *)
(*           between two suspension points (await), so the interleavings   *)
(*           of the model are those of the event loop.  A completed        *)
(*           database call is one step of the awaiting handler.           *)
(*                                                                         *)
(*   SpecDb  DatabaseManager alone: save_game_session runs in worker       *)
(*           threads (asyncio.to_thread, database.py:201), one action per  *)
(*           statement of the ORM session that reads or writes the store.  *)
(*                                                                         *)
(*   SpecFair   Spec for one question and one answer, under weak fairness  *)
(*           of every suspended handler and of the timeout task.           *)
(*                                                                         *)
(*   SpecScore  the functions of ScoringSystem, one call each, with        *)
(*           arguments drawn from finite sets.                             *)
(*                                                                         *)
(*   SpecGen    TriviaGenerator.generate_question against a provider that  *)
(*           answers, answers badly, or fails.                             *)
(*                                                                         *)
(*   SpecUpdate the in-memory updates of the User and UserStats rows,      *)
(*           applied to the rows that earlier games produce.               *)
(*                                                                         *)
(*   SpecTwo    Spec with two users, one question for each and one answer. *)
(*                                                                         *)
(*   SpecStats  SpecDb with get_user_stats called between the steps of     *)
(*           the saves.                                                    *)
(*                                                                         *)
(*   SpecBoard  get_leaderboard and /leaderboard over the tables that      *)
(*           games recorded one after the other leave.                     *)
(*                                                                         *)
(*   SpecUsers  get_or_create_user in worker threads, the users table      *)
(*           kept as the sequence of its rows.                             *)
(*                                                                         *)
(* Units.  Scores are integers in hundredths of a point (the code rounds   *)
(* to 2 decimals); times are whole seconds; an average is an exact         *)
(* fraction <<numerator, denominator>> in lowest terms.                    *)
(*                                                                         *)
(* Collaborators outside the repository.                                   *)
(*  - The store (SQLAlchemy session over the configured engine) is taken   *)
(*    with the guarantees both configured engines give: a session sees the *)
(*    committed rows at the time of its query plus its own pending         *)
(*    changes, commit publishes the pending changes in one step, rollback  *)
(*    drops them.  No lock between sessions is assumed: the code takes     *)
(*    none, and only one of the engines (SQLite, whose writer holds the    *)
(*    database file from its first write to its commit) would provide one. *)
(*  - trivia.py is written against an awaitable generate_question and a    *)
(*    user object with attributes.  As shipped, generate_question is a     *)
(*    plain function (generator.py:42) and get_or_create_user returns a    *)
(*    dict (database.py:161), so `await trivia_generator.generate_question`*)
(*    (trivia.py:76) and `user.preferred_persona`, `user.id`               *)
(*    (trivia.py:79, 160) raise TypeError / AttributeError into the        *)
(*    handler's except clause.  The model keeps both outcomes of these     *)
(*    statements: the exception (TriviaRaises, AnswerUserRaises) and the   *)
(*    value the statement is written to produce.                           *)
(***************************************************************************)
EXTENDS Integers, Sequences, FiniteSets, TLC

(***************************************************************************)
(* Bounds of the model.                                                    *)
(***************************************************************************)
MaxSessions == 2      \* TriviaGame objects ever created
MaxAnswers == 2       \* /answer commands ever dispatched
MaxInFlight == 2      \* command handlers suspended at the same time
MaxSaves == 2         \* save_game_session calls ever started (SpecDb)
MaxCalls == 2         \* calls of calculate_score with the same arguments (SpecScore)

(***************************************************************************)
(* Program constants (config/settings.py).                                 *)
(***************************************************************************)
DEFAULT_QUESTION_TIMEOUT == 30
BASE_POINTS == 100
MAX_SPEED_BONUS_PCT == 100       \* MAX_SPEED_BONUS = 1.0, in percent

Users == {"u1", "u2"}
\* The user whose commands the cog specification follows.
Players == {"u1"}
NoGame == 0

(***************************************************************************)
(* Inputs.                                                                 *)
(***************************************************************************)
\* The questions the provider may return: correct letter, category,
\* difficulty (the text and the four options play no part in the lifecycle).
Questions ==
    { [correct_answer |-> "B", category |-> "science", difficulty |-> "medium"],
      [correct_answer |-> "C", category |-> "history", difficulty |-> "easy"] }

\* The question games are played with in the cog specification.
GameQuestions ==
    { [correct_answer |-> "B", category |-> "science", difficulty |-> "medium"] }

\* The raw text of the `answer` parameter, a sequence of characters.
RawAnswers == { <<"b">>, <<" ", "C">>, <<"x">> }

\* time.time() - game.start_time, in seconds.
ResponseTimes == {5, 30}

(***************************************************************************)
(* str.upper() and str.strip() on sequences of characters.                 *)
(***************************************************************************)
UpperChar(c) ==
    CASE c = "a" -> "A" [] c = "b" -> "B" [] c = "c" -> "C" [] c = "d" -> "D"
      [] c = "x" -> "X" [] OTHER -> c

Upper(s) == [i \in 1..Len(s) |-> UpperChar(s[i])]

RECURSIVE LStrip(_)
LStrip(s) == IF s # <<>> /\ Head(s) = " " THEN LStrip(Tail(s)) ELSE s

RECURSIVE RStrip(_)
RStrip(s) ==
    IF s # <<>> /\ s[Len(s)] = " " THEN RStrip(SubSeq(s, 1, Len(s) - 1)) ELSE s

Strip(s) == RStrip(LStrip(s))

\* answer = answer.upper().strip()                       (trivia.py:139)
NormalizeAnswer(raw) == Strip(Upper(raw))

\* answer not in ['A', 'B', 'C', 'D']                    (trivia.py:140)
ValidAnswer(a) == a \in { <<"A">>, <<"B">>, <<"C">>, <<"D">> }

(***************************************************************************)
(* ScoringSystem (src/src/utils/scoring.py).                               *)
(***************************************************************************)
Max(a, b) == IF a >= b THEN a ELSE b
Min(a, b) == IF a <= b THEN a ELSE b

\* Multipliers that do not tell hard from medium.
DifficultyMultiplierFlat(difficulty) ==
    IF difficulty = "easy" THEN 10 ELSE 15

\* difficulty_multipliers.get(difficulty.lower(), 1.5), in tenths.
DifficultyMultiplier(difficulty) ==
    CASE difficulty = "easy" -> 10
      [] difficulty = "medium" -> 15
      [] difficulty = "hard" -> 20
      [] OTHER -> 15

\* The largest n in lo..hi with n * n * den <= num (lo satisfies it).
RECURSIVE FloorSqrtIn(_, _, _, _)
FloorSqrtIn(num, den, lo, hi) ==
    IF lo = hi THEN lo
    ELSE LET mid == (lo + hi + 1) \div 2
         IN  IF mid * mid * den <= num
             THEN FloorSqrtIn(num, den, mid, hi)
             ELSE FloorSqrtIn(num, den, lo, mid - 1)

\* A bonus that falls linearly from half the cap.
SpeedBonusHalf(response_time, max_time, base_score) ==
    IF response_time >= max_time THEN 0
    ELSE (base_score * (max_time - response_time)) \div (2 * max_time)

\* A bonus that falls linearly from the cap, without the square root.
SpeedBonusLinear(response_time, max_time, base_score) ==
    IF response_time >= max_time THEN 0
    ELSE (base_score * (max_time - response_time)) \div max_time

\* round(base * MAX_SPEED_BONUS * sqrt((max_time - t) / max_time), 2) in
\* hundredths: the integer nearest to sqrt(num / den), where
\* num / den = (bonus_cap)^2 * (max_time - t) / max_time.  base is a whole
\* number of points and max_time a multiple of 10, so both sides are divided
\* by 10 to stay inside 32-bit integers.
SpeedBonus(response_time, max_time, base_score) ==
    IF response_time >= max_time THEN 0
    ELSE LET cap == (base_score * MAX_SPEED_BONUS_PCT) \div 100
             pts == cap \div 100
             num == pts * pts * (max_time - response_time) * 1000
             den == max_time \div 10
             n == FloorSqrtIn(num, den, 0, cap)
         IN  IF (n * n + n) * den < num THEN n + 1 ELSE n

\* max_time = None, the default of the parameter; like 0 it is falsy in
\* `max_time or settings.DEFAULT_QUESTION_TIMEOUT`       (scoring.py:13, 40)
NoMaxTime == 0

\* A calculate_score that scores every answer as a correct one.
CalculateScoreMaxAnyAnswer(is_correct, response_time, difficulty, max_time) ==
    LET base == BASE_POINTS * DifficultyMultiplier(difficulty) * 10
        max == IF max_time = NoMaxTime THEN DEFAULT_QUESTION_TIMEOUT ELSE max_time
        bonus == SpeedBonus(response_time, max, base)
    IN  <<base, bonus, base + bonus>>

\* calculate_score(is_correct, response_time, difficulty, max_time):
\* <<base, bonus, total>>                                   (scoring.py:9-45)
CalculateScoreMax(is_correct, response_time, difficulty, max_time) ==
    IF ~is_correct THEN <<0, 0, 0>>
    ELSE LET base == BASE_POINTS * DifficultyMultiplier(difficulty) * 10
             max == IF max_time = NoMaxTime THEN DEFAULT_QUESTION_TIMEOUT
                    ELSE max_time
             bonus == SpeedBonus(response_time, max, base)
         IN  <<base, bonus, base + bonus>>

\* calculate_score as /answer calls it, without max_time  (trivia.py:151-153)
CalculateScore(is_correct, response_time, difficulty) ==
    CalculateScoreMax(is_correct, response_time, difficulty, NoMaxTime)

\* A streak bonus without the cap at 100%.
StreakBonusUncapped(streak, base_score) ==
    IF streak <= 1 THEN 0
    ELSE (base_score * (streak - 1)) \div 10

\* calculate_streak_bonus(streak, base_score), in hundredths: base_score is a
\* whole number of points, so base * k / 10 is a whole number of hundredths
\* and round(..., 2) leaves it as it is                     (scoring.py:68-86)
StreakBonus(streak, base_score) ==
    IF streak <= 1 THEN 0
    ELSE (base_score * Min(streak - 1, 10)) \div 10

\* math.log(games_played + 1) in units of 1/10000, for the numbers of games
\* the model passes to NormalizeScore                      (scoring.py:109)
LnTable == <<6931, 10986, 13863, 16094, 17918, 19459, 20794, 21972, 23026, 23979>>

\* normalize_score_for_leaderboard without the guard of line 99 (a division by
\* the number of games where there is one).
NormalizeScoreUnguarded(total_score, games_played, win_rate) ==
    LET g == Max(games_played, 1)
        q == total_score * (200 + win_rate)
        ln == LnTable[g]
        u == q * 20 + (q \div 10000) * ln + ((q % 10000) * ln) \div 10000
    IN  (u + 2000 * g) \div (4000 * g)

\* ScoringSystem.normalize_score_for_leaderboard         (scoring.py:89-113)
\* total_score and the result in hundredths, win_rate in whole percent.
\*   avg * (1 + win_rate/100 * 0.5) * (1 + ln(games + 1)/20), rounded to 2
\*   decimals, is  total * (200 + win_rate) * (200000 + ln) / (games * 4 * 10^7)
\*   with ln from LnTable; the product is formed in two halves to stay in
\*   32 bits.
NormalizeScore(total_score, games_played, win_rate) ==
    IF games_played = 0 THEN 0
    ELSE LET q == total_score * (200 + win_rate)
             ln == LnTable[games_played]
             u == q * 20 + (q \div 10000) * ln + ((q % 10000) * ln) \div 10000
         IN  (u + 2000 * games_played) \div (4000 * games_played)

\* The composite of get_performance_rating in thousandths: win_rate (whole
\* percent) * 0.6 + min(avg_score / 200, 1.0) * 40, avg_score in hundredths
\*                                                          (scoring.py:127)
PerformanceScore(win_rate, avg_score) ==
    win_rate * 600 + Min(avg_score * 2, 40000)

\* get_performance_rating without the check of line 123.
PerformanceRatingAnyGames(win_rate, avg_score, games_played) ==
    LET performance_score == PerformanceScore(win_rate, avg_score)
    IN  IF performance_score >= 85000 THEN "Grandmaster"
        ELSE IF performance_score >= 75000 THEN "Expert"
        ELSE IF performance_score >= 65000 THEN "Advanced"
        ELSE IF performance_score >= 50000 THEN "Intermediate"
        ELSE IF performance_score >= 35000 THEN "Beginner"
        ELSE "Learning"

\* ScoringSystem.get_performance_rating                 (scoring.py:116-140)
PerformanceRating(win_rate, avg_score, games_played) ==
    IF games_played < 5 THEN "Novice"
    ELSE LET performance_score == PerformanceScore(win_rate, avg_score)
         IN  IF performance_score >= 85000 THEN "Grandmaster"
             ELSE IF performance_score >= 75000 THEN "Expert"
             ELSE IF performance_score >= 65000 THEN "Advanced"
             ELSE IF performance_score >= 50000 THEN "Intermediate"
             ELSE IF performance_score >= 35000 THEN "Beginner"
             ELSE "Learning"

(***************************************************************************)
(* Exact fractions <<numerator, denominator>>, denominator > 0.            *)
(***************************************************************************)
RECURSIVE Gcd(_, _)
Gcd(a, b) == IF b = 0 THEN a ELSE Gcd(b, a % b)

Frac(n, d) == LET g == Gcd(n, d) IN IF g = 0 THEN <<0, 1>> ELSE <<n \div g, d \div g>>

\* (avg * (games - 1) + response_time) / games     (database.py:297-300)
RunningAverage(avg, games, response_time) ==
    Frac(avg[1] * (games - 1) + response_time * avg[2], avg[2] * games)

(***************************************************************************)
(* The persistent tables (src/src/database/models.py).                     *)
(*   users          : discord id -> User row                               *)
(*   user_stats     : <<discord id, category>> -> UserStats row            *)
(*   game_sessions  : the GameSession rows in insertion order              *)
(* A GameSession row carries `sid`, the TriviaGame it was played in: a     *)
(* history field of the model (0 when the save is issued outside a game).  *)
(***************************************************************************)
\* User(total_games=0, total_wins=0, ...)              (database.py:139-149)
NewUser ==
    [ total_games |-> 0, total_wins |-> 0, total_score |-> 0,
      current_streak |-> 0, best_streak |-> 0, avg_response_time |-> <<0, 1>> ]

\* UserStats(games_played=0, games_won=0, ...)         (database.py:326-334)
NewUserStats ==
    [ games_played |-> 0, games_won |-> 0, total_score |-> 0,
      avg_response_time |-> <<0, 1>>, mastery_level |-> <<0, 1>> ]

EmptyDb == [ users |-> <<>>, user_stats |-> <<>>, game_sessions |-> <<>> ]


\* An update that counts the game and the streak but never raises best_streak.
UpdatedUserStaleBest(user, game) ==
    [ user EXCEPT !.total_games = @ + 1,
                  !.total_score = @ + game.total_score,
                  !.total_wins = IF game.is_correct THEN @ + 1 ELSE @,
                  !.current_streak = IF game.is_correct THEN @ + 1 ELSE 0 ]

\* An update in which every win sets best_streak to the current streak.
UpdatedUserBestIsStreak(user, game) ==
    [ user EXCEPT !.total_games = @ + 1,
                  !.total_score = @ + game.total_score,
                  !.total_wins = IF game.is_correct THEN @ + 1 ELSE @,
                  !.current_streak = IF game.is_correct THEN @ + 1 ELSE 0,
                  !.best_streak = IF game.is_correct THEN user.current_streak + 1 ELSE @ ]

\* The in-memory update of the User row             (database.py:278-300)
UpdatedUser(user, game) ==
    LET games == user.total_games + 1
        streak == IF game.is_correct THEN user.current_streak + 1 ELSE 0
    IN  [ total_games |-> games,
          total_score |-> user.total_score + game.total_score,
          total_wins |-> IF game.is_correct THEN user.total_wins + 1
                         ELSE user.total_wins,
          current_streak |-> streak,
          best_streak |-> IF game.is_correct THEN Max(user.best_streak, streak)
                          ELSE user.best_streak,
          avg_response_time |->
              IF games = 1 THEN Frac(game.response_time, 1)
              ELSE RunningAverage(user.avg_response_time, games, game.response_time) ]

\* An update whose mastery level is the win rate, whatever the number of games.
UpdatedUserStatsWinRate(stats, game) ==
    LET played == stats.games_played + 1
        won == IF game.is_correct THEN stats.games_won + 1 ELSE stats.games_won
    IN  [ stats EXCEPT !.games_played = played,
                       !.total_score = @ + game.total_score,
                       !.games_won = won,
                       !.mastery_level = Frac(won * 100, played) ]

\* The in-memory update of the UserStats row        (database.py:343-362)
UpdatedUserStats(stats, game) ==
    LET played == stats.games_played + 1
        won == IF game.is_correct THEN stats.games_won + 1 ELSE stats.games_won
    IN  [ games_played |-> played,
          total_score |-> stats.total_score + game.total_score,
          games_won |-> won,
          avg_response_time |->
              IF played = 1 THEN Frac(game.response_time, 1)
              ELSE RunningAverage(stats.avg_response_time, played, game.response_time),
          \* win_rate * games_factor = (won / played * 100) * min(played / 10, 1)
          mastery_level |->
              IF played >= 10 THEN Frac(won * 100, played) ELSE Frac(won * 10, 1) ]

\* session.query(User).filter(User.id == ...).first()   (database.py:257)
HasUser(d, u) == u \in DOMAIN d.users

\* session.query(UserStats).filter(...).first(), or the new row
\* (database.py:320-335)
StatsRowOf(d, u, c) ==
    IF <<u, c>> \in DOMAIN d.user_stats THEN d.user_stats[<<u, c>>] ELSE NewUserStats

\* f with f[k] set to v, k added to the domain when missing.
Put(f, k, v) == [x \in DOMAIN f \cup {k} |-> IF x = k THEN v ELSE f[x]]

\* What commit publishes for one session: the inserted GameSession, the
\* User row and the UserStats row it holds (database.py:211-217).  `user`
\* and `stats` are the rows as the session modified them; has_user / has_stats
\* tell whether the session loaded them (database.py:260-262, 316-317).
Committed(d, game, has_user, user, has_stats, stats) ==
    [ game_sessions |-> Append(d.game_sessions, game),
      users |-> IF has_user THEN Put(d.users, game.user_id, user) ELSE d.users,
      user_stats |-> IF has_stats
                     THEN Put(d.user_stats, <<game.user_id, game.category>>, stats)
                     ELSE d.user_stats ]

\* _save_game_session_sync run without interference from another session.
SaveGameSession(d, game) ==
    LET has_user == HasUser(d, game.user_id)
        has_stats == has_user /\ game.category # ""
    IN  Committed(d, game,
                  has_user,
                  IF has_user THEN UpdatedUser(d.users[game.user_id], game) ELSE NewUser,
                  has_stats,
                  IF has_stats
                  THEN UpdatedUserStats(StatsRowOf(d, game.user_id, game.category), game)
                  ELSE NewUserStats)

\* _get_or_create_user_sync: the row is created on first contact
\* (database.py:136-158).
GetOrCreateUser(d, u) ==
    IF HasUser(d, u) THEN d ELSE [d EXCEPT !.users = Put(d.users, u, NewUser)]

(***************************************************************************)
(* State.                                                                  *)
(***************************************************************************)
VARIABLES
    db,            \* the committed tables
    threads,       \* SpecDb: the worker threads inside _save_game_session_sync
    nsaves,        \* SpecDb: save_game_session calls started
    ncommitted,    \* SpecDb: save_game_session calls that returned normally
    active_games,  \* TriviaCog.active_games: user id -> TriviaGame (NoGame: no key)
    games,         \* every TriviaGame object created, by creation number
    tasks,         \* the command handlers suspended at an await
    nanswers,      \* /answer commands that passed the active-game check
    log,           \* history: per TriviaGame, what was sent and saved for it
    call,          \* SpecScore: the ScoringSystem function called and its arguments
    ret,           \* SpecScore: what the call returned (NoRet before it returns)
    nret,          \* SpecScore: how many times the call was made and returned
    gen            \* SpecGen: the generate_question call in progress

dbvars == <<threads, nsaves, ncommitted>>
cogvars == <<active_games, games, tasks, nanswers, log>>
scorevars == <<call, ret, nret>>
genvars == <<gen>>
vars == <<db, threads, nsaves, ncommitted, active_games, games, tasks, nanswers, log,
          call, ret, nret, gen>>

\* Worker threads of the default executor that run a save at the same time.
Threads == {1, 2}

\* A GameSession built from game_data (trivia.py:159-174).
GameSession(u, sid, question, is_correct, response_time) ==
    [ user_id |-> u, sid |-> sid, category |-> question.category,
      is_correct |-> is_correct, response_time |-> response_time,
      total_score |-> CalculateScore(is_correct, response_time, question.difficulty)[3] ]

NoGameSession == GameSession("", 0, [category |-> "", difficulty |-> ""], FALSE, 0)

IdleThread ==
    [ pc |-> "idle", game |-> NoGameSession, has_user |-> FALSE, user |-> NewUser,
      has_stats |-> FALSE, stats |-> NewUserStats ]

(***************************************************************************)
(* TriviaCog state (trivia.py:16-32).                                      *)
(***************************************************************************)
Slots == 1..MaxInFlight

\* A TriviaGame.  timeout_task is the asyncio task of
\* _handle_question_timeout: "none" (None), "sleeping" (in asyncio.sleep),
\* "sending" (in channel.send, holding `game` = timer_game), "done",
\* "cancelled".
NewGame(u, question) ==
    [ user_id |-> u, question |-> question, is_active |-> TRUE,
      timeout_task |-> "none", timer_game |-> NoGame ]

\* History of a TriviaGame: result embeds, time's-up messages and skip
\* reveals sent for it.
NewLog == [ results |-> 0, timeups |-> 0, reveals |-> 0 ]

\* A handler coroutine: where it is suspended (pc) and its locals.  `seen` is
\* history: the game registered when the handler passed its first check;
\* `cause` is history: the statement that raised into the except clause;
\* streak_due is `is_correct and user.current_streak > 1` (trivia.py:198).
IdleTask ==
    [ kind |-> "idle", pc |-> "", user |-> "", raw |-> <<>>, seen |-> NoGame,
      game |-> NoGame, is_correct |-> FALSE, streak_due |-> FALSE, cause |-> "" ]

\* Suspended in the send of a last message, with nothing left to do after it.
ReplyPcs == {"t_reject", "t_apology", "a_reject", "a_invalid", "a_error",
             "s_reject", "s_error"}

\* No ScoringSystem call under observation.
NoCall ==
    [ fn |-> "", is_correct |-> FALSE, response_time |-> 0, difficulty |-> "",
      max_time |-> NoMaxTime, streak |-> 0, base_score |-> 0,
      total_score |-> 0, games_played |-> 0, win_rate |-> 0, avg_score |-> 0,
      user |-> NewUser, stats |-> NewUserStats, game |-> NoGameSession ]
NoRet == <<>>

\* Python's None, as the era of a question.
None == "None"

\* No TriviaQuestion.                                   (generator.py:10-18)
NoQuestion ==
    [ question |-> <<>>, options |-> <<>>, correct_answer |-> "", category |-> "",
      difficulty |-> "", era |-> None, explanation |-> "" ]

\* No generate_question call under observation.  requested: the arguments of
\* the call; category, difficulty, era: the locals of the same names.
NoGen ==
    [ pc |-> "idle", requested |-> [category |-> "", difficulty |-> "", era |-> ""],
      category |-> "", difficulty |-> "", era |-> "", specific_category |-> "",
      ncalls |-> 0, exc |-> "", result |-> NoQuestion ]

InitCog ==
    /\ active_games = [u \in Users |-> NoGame]
    /\ games = <<>>
    /\ tasks = [k \in Slots |-> IdleTask]
    /\ nanswers = 0
    /\ log = <<>>


InitDb ==
    /\ db = EmptyDb
    /\ threads = [t \in Threads |-> IdleThread]
    /\ nsaves = 0
    /\ ncommitted = 0
    /\ InitCog
    /\ call = NoCall
    /\ ret = NoRet
    /\ nret = 0
    /\ gen = NoGen

(***************************************************************************)
(* SpecDb: DatabaseManager.                                                *)
(***************************************************************************)
\* get_or_create_user on first contact of user u          (database.py:88-175)
DbGetOrCreateUser(u) ==
    /\ ~HasUser(db, u)
    /\ db' = GetOrCreateUser(db, u)
    /\ UNCHANGED <<dbvars, cogvars, scorevars, genvars>>

\* save_game_session(game_data) enters a worker thread: the GameSession is
\* built, added and flushed, pending in the session      (database.py:201-212)
SaveStart(t, u, question, is_correct, response_time) ==
    /\ nsaves < MaxSaves
    /\ threads[t].pc = "idle"
    /\ \A t2 \in Threads : t2 < t => threads[t2].pc # "idle"
    /\ HasUser(db, u)
    /\ threads' = [threads EXCEPT ![t] =
           [IdleThread EXCEPT !.pc = "user",
                              !.game = GameSession(u, 0, question, is_correct, response_time)]]
    /\ nsaves' = nsaves + 1
    /\ UNCHANGED <<db, ncommitted, cogvars, scorevars, genvars>>

\* _update_user_stats_sync: the User row is queried and updated in the
\* session                                                (database.py:253-300)
SaveUpdateUser(t) ==
    LET th == threads[t] IN
    /\ th.pc = "user"
    /\ threads' = [threads EXCEPT ![t] =
           IF HasUser(db, th.game.user_id)
           THEN [th EXCEPT !.pc = "stats", !.has_user = TRUE,
                           !.user = UpdatedUser(db.users[th.game.user_id], th.game)]
           ELSE [th EXCEPT !.pc = "commit"]]
    /\ UNCHANGED <<db, nsaves, ncommitted, cogvars, scorevars, genvars>>

\* _update_category_stats_sync: the UserStats row is queried (or created)
\* and updated in the session                             (database.py:314-362)
SaveUpdateStats(t) ==
    LET th == threads[t] IN
    /\ th.pc = "stats"
    /\ threads' = [threads EXCEPT ![t] =
           IF th.game.category = ""
           THEN [th EXCEPT !.pc = "commit"]
           ELSE [th EXCEPT !.pc = "commit", !.has_stats = TRUE,
                           !.stats = UpdatedUserStats(
                               StatsRowOf(db, th.game.user_id, th.game.category),
                               th.game)]]
    /\ UNCHANGED <<db, nsaves, ncommitted, cogvars, scorevars, genvars>>

\* session.commit(); return game_session                  (database.py:217-218)
SaveCommit(t) ==
    LET th == threads[t] IN
    /\ th.pc = "commit"
    /\ db' = Committed(db, th.game, th.has_user, th.user, th.has_stats, th.stats)
    /\ threads' = [threads EXCEPT ![t] = IdleThread]
    /\ ncommitted' = ncommitted + 1
    /\ UNCHANGED <<nsaves, cogvars, scorevars, genvars>>

\* A rollback that drops the aggregate updates but keeps the flushed insert.
RolledBackKeepsInsert(d, th) ==
    [d EXCEPT !.game_sessions = Append(@, th.game)]

\* What the except clause leaves of the session's pending changes:
\* session.rollback() drops them                          (database.py:219-222)
RolledBack(d, th) == d

\* A statement after the flush raises: except, rollback, re-raise, close
\* (database.py:219-224)
SaveRaise(t) ==
    LET th == threads[t] IN
    /\ th.pc \in {"user", "stats", "commit"}
    /\ db' = RolledBack(db, th)
    /\ threads' = [threads EXCEPT ![t] = IdleThread]
    /\ UNCHANGED <<nsaves, ncommitted, cogvars, scorevars, genvars>>

NextDb ==
    \/ \E u \in Users : DbGetOrCreateUser(u)
    \/ \E t \in Threads, u \in Users, q \in Questions, c \in BOOLEAN, rt \in ResponseTimes :
           SaveStart(t, u, q, c, rt)
    \/ \E t \in Threads : SaveUpdateUser(t)
    \/ \E t \in Threads : SaveUpdateStats(t)
    \/ \E t \in Threads : SaveCommit(t)
    \/ \E t \in Threads : SaveRaise(t)

SpecDb == InitDb /\ [][NextDb]_vars

(***************************************************************************)
(* SpecStats: get_user_stats beside the saves of SpecDb.                   *)
(***************************************************************************)
\* The dict get_user_stats builds from a User row: the columns and the two
\* properties win_rate and avg_score_per_game (models.py:28-40), as exact
\* fractions                                              (database.py:462-475)
UserStatsDict(u, user) ==
    [ discord_id |-> u,
      total_games |-> user.total_games,
      total_wins |-> user.total_wins,
      total_score |-> user.total_score,
      current_streak |-> user.current_streak,
      best_streak |-> user.best_streak,
      avg_response_time |-> user.avg_response_time,
      win_rate |-> IF user.total_games = 0 THEN <<0, 1>>
                   ELSE Frac(user.total_wins * 100, user.total_games),
      avg_score_per_game |-> IF user.total_games = 0 THEN <<0, 1>>
                             ELSE Frac(user.total_score, user.total_games) ]

\* A get_user_stats that answers for an unknown user with the dict of a new
\* row.
GetUserStatsOrNew(d, u) ==
    IF HasUser(d, u) THEN <<UserStatsDict(u, d.users[u])>>
    ELSE <<UserStatsDict(u, NewUser)>>

\* What get_user_stats returns, read in a session of its own from the
\* committed tables d: <<>> for None, <<dict>> otherwise   (database.py:424-477)
GetUserStats(d, u) ==
    IF HasUser(d, u) THEN <<UserStatsDict(u, d.users[u])>>
    ELSE <<>>

\* get_user_stats(u) has returned; its session is closed with nothing added
\* to it                                                  (database.py:424-477)
GetUserStatsCall(u) ==
    /\ ret = NoRet
    /\ ret' = <<[fn |-> "get_user_stats", discord_id |-> u, result |-> GetUserStats(db, u)]>>
    /\ nret' = nret + 1
    /\ UNCHANGED <<call, db, dbvars, cogvars, genvars>>

NextStats ==
    \/ NextDb
    \/ \E u \in Users : GetUserStatsCall(u)

SpecStats == InitDb /\ [][NextStats]_vars

(***************************************************************************)
(* Spec: TriviaCog.                                                        *)
(***************************************************************************)
\* user_id in self.active_games and self.active_games[user_id].is_active
\* (trivia.py:62, 120, 224, 307)
IsActive(u) == active_games[u] # NoGame /\ games[active_games[u]].is_active

\* The lowest free handler slot.
FreeSlot(k) ==
    /\ tasks[k].kind = "idle"
    /\ \A k2 \in Slots : k2 < k => tasks[k2].kind # "idle"

\* /trivia handlers that have not yet created their TriviaGame.
PendingStarts ==
    Cardinality({k \in Slots : tasks[k].kind = "trivia" /\ tasks[k].pc \in {"t_user", "t_gen"}})

\* task.cancel(): a task suspended in sleep or in channel.send ends with
\* CancelledError, caught at trivia.py:329; a finished task is left alone.
\* A send interrupted by the cancellation is counted as not delivered.
Cancelled(timeout_task) ==
    IF timeout_task \in {"sleeping", "sending"} THEN "cancelled" ELSE timeout_task

\* A cancel that reaches the timeout task of every registered game.
CancelTimeoutAll(gs, g) ==
    [h \in 1..Len(gs) |->
        [gs[h] EXCEPT !.timeout_task = Cancelled(@), !.timer_game = NoGame]]

\* if game.timeout_task: game.timeout_task.cancel()   (trivia.py:135-136, 235-236)
CancelTimeout(gs, g) ==
    [gs EXCEPT ![g].timeout_task = Cancelled(@), ![g].timer_game = NoGame]

\* game.is_active = False                              (trivia.py:207, 254, 326)
Closed(gs, g) == [gs EXCEPT ![g].is_active = FALSE]

\* del self.active_games[user_id]; KeyError when the key is gone
\* (trivia.py:208, 255, 327)
CanDel(u) == active_games[u] # NoGame
\* A del that leaves the entry in place.
DeletedNot(u) == active_games
Deleted(u) == [active_games EXCEPT ![u] = NoGame]

Started(kind, pc, u) == [IdleTask EXCEPT !.kind = kind, !.pc = pc, !.user = u]

\* A /trivia that skips the already-active check.
TriviaCmdUnchecked(k, u) ==
    /\ FreeSlot(k)
    /\ Len(games) + PendingStarts < MaxSessions
    /\ tasks' = [tasks EXCEPT ![k] = Started("trivia", "t_user", u)]
    /\ UNCHANGED <<db, dbvars, scorevars, genvars, active_games, games, nanswers, log>>

\* /trivia up to its first await: the already-active message, or defer
\* (trivia.py:59-70)
TriviaCmd(k, u) ==
    /\ FreeSlot(k)
    /\ IF IsActive(u)
       THEN tasks' = [tasks EXCEPT ![k] = Started("trivia", "t_reject", u)]
       ELSE /\ Len(games) + PendingStarts < MaxSessions
            /\ tasks' = [tasks EXCEPT ![k] = Started("trivia", "t_user", u)]
    /\ UNCHANGED <<db, dbvars, scorevars, genvars, active_games, games, nanswers, log>>

\* defer and get_or_create_user have returned               (trivia.py:70-73)
TriviaUser(k) ==
    LET t == tasks[k] IN
    /\ t.kind = "trivia" /\ t.pc = "t_user"
    /\ db' = GetOrCreateUser(db, t.user)
    /\ tasks' = [tasks EXCEPT ![k].pc = "t_gen"]
    /\ UNCHANGED <<dbvars, scorevars, genvars, active_games, games, nanswers, log>>

\* The question has arrived: the TriviaGame is created and registered, and
\* the handler awaits the intro text and the send          (trivia.py:76-97)
TriviaRegister(k, question) ==
    LET t == tasks[k]
        g == Len(games) + 1
    IN  /\ t.kind = "trivia" /\ t.pc = "t_gen"
        /\ games' = Append(games, NewGame(t.user, question))
        /\ log' = Append(log, NewLog)
        /\ active_games' = [active_games EXCEPT ![t.user] = g]
        /\ tasks' = [tasks EXCEPT ![k].pc = "t_send", ![k].game = g]
        /\ UNCHANGED <<db, dbvars, scorevars, genvars, nanswers>>

\* An exception before the game is created: the database call fails, or, as
\* shipped, the await of generate_question / the attribute read of the user
\* dict raises.  except: the apology is sent         (trivia.py:73-79, 106-111)
TriviaRaises(k) ==
    LET t == tasks[k] IN
    /\ t.kind = "trivia" /\ t.pc \in {"t_user", "t_gen"}
    /\ tasks' = [tasks EXCEPT ![k].pc = "t_apology"]
    /\ UNCHANGED <<db, dbvars, scorevars, genvars, active_games, games, nanswers, log>>

\* The question was sent: the timeout task is created and the handler
\* returns                                                 (trivia.py:97-104)
TriviaArm(k) ==
    LET t == tasks[k] IN
    /\ t.kind = "trivia" /\ t.pc = "t_send"
    /\ games' = [games EXCEPT ![t.game].timeout_task = "sleeping"]
    /\ tasks' = [tasks EXCEPT ![k] = IdleTask]
    /\ UNCHANGED <<db, dbvars, scorevars, genvars, active_games, nanswers, log>>

\* followup.send raises after the game was registered: except, apology; no
\* timeout task is created                           (trivia.py:87-97, 106-111)
TriviaSendRaises(k) ==
    LET t == tasks[k] IN
    /\ t.kind = "trivia" /\ t.pc = "t_send"
    /\ tasks' = [tasks EXCEPT ![k].pc = "t_apology"]
    /\ UNCHANGED <<db, dbvars, scorevars, genvars, active_games, games, nanswers, log>>

\* An /answer that skips the active-session check.
AnswerCmdUnchecked(k, u, raw) ==
    /\ FreeSlot(k)
    /\ nanswers < MaxAnswers
    /\ tasks' = [tasks EXCEPT ![k] =
           [Started("answer", "a_defer", u) EXCEPT
                !.raw = raw, !.seen = active_games[u]]]
    /\ nanswers' = nanswers + 1
    /\ UNCHANGED <<db, dbvars, scorevars, genvars, active_games, games, log>>

\* /answer up to its first await: the no-active message, or defer
\* (trivia.py:117-128)
AnswerCmd(k, u, raw) ==
    /\ FreeSlot(k)
    /\ IF ~IsActive(u)
       THEN /\ tasks' = [tasks EXCEPT ![k] = Started("answer", "a_reject", u)]
            /\ UNCHANGED nanswers
       ELSE /\ nanswers < MaxAnswers
            /\ tasks' = [tasks EXCEPT ![k] =
                   [Started("answer", "a_defer", u) EXCEPT
                        !.raw = raw, !.seen = active_games[u]]]
            /\ nanswers' = nanswers + 1
    /\ UNCHANGED <<db, dbvars, scorevars, genvars, active_games, games, log>>

\* After defer: the game is read, its timeout cancelled, the answer
\* validated and scored, get_or_create_user awaited      (trivia.py:130-156)
AnswerRead(k) ==
    LET t == tasks[k]
        g == active_games[t.user]
        answer == NormalizeAnswer(t.raw)
    IN  /\ t.kind = "answer" /\ t.pc = "a_defer"
        /\ IF g = NoGame
           THEN \* KeyError at trivia.py:130, except at 212-217
                /\ tasks' = [tasks EXCEPT ![k].pc = "a_error", ![k].cause = "read",
                                          ![k].raw = <<>>]
                /\ UNCHANGED games
           ELSE IF ~ValidAnswer(answer)
           THEN /\ games' = CancelTimeout(games, g)
                /\ tasks' = [tasks EXCEPT ![k].pc = "a_invalid", ![k].game = g,
                                          ![k].raw = <<>>]
           ELSE /\ games' = CancelTimeout(games, g)
                /\ tasks' = [tasks EXCEPT
                       ![k].pc = "a_user", ![k].game = g, ![k].raw = <<>>,
                       ![k].is_correct =
                           (answer = Upper(<<games[g].question.correct_answer>>))]
        /\ UNCHANGED <<db, dbvars, scorevars, genvars, active_games, nanswers, log>>

\* get_or_create_user has returned the user as stored at that moment; the
\* handler awaits save_game_session                    (trivia.py:156-176)
AnswerUser(k) ==
    LET t == tasks[k]
        d == GetOrCreateUser(db, t.user)
    IN  /\ t.kind = "answer" /\ t.pc = "a_user"
        /\ db' = d
        /\ tasks' = [tasks EXCEPT
               ![k].pc = "a_save",
               ![k].streak_due = t.is_correct /\ d.users[t.user].current_streak > 1]
        /\ UNCHANGED <<dbvars, scorevars, genvars, active_games, games, nanswers, log>>

\* get_or_create_user raises, or, as shipped, `user.id` on the returned dict
\* does: except, error message                      (trivia.py:156-160, 212-217)
AnswerUserRaises(k) ==
    LET t == tasks[k] IN
    /\ t.kind = "answer" /\ t.pc = "a_user"
    /\ tasks' = [tasks EXCEPT ![k].pc = "a_error", ![k].cause = "user"]
    /\ UNCHANGED <<db, dbvars, scorevars, genvars, active_games, games, nanswers, log>>

\* save_game_session has committed the game_data built from the locals;
\* response_time is the value read at trivia.py:132.  The handler awaits
\* the result text and the send of the result embed       (trivia.py:159-195)
AnswerSave(k, response_time) ==
    LET t == tasks[k] IN
    /\ t.kind = "answer" /\ t.pc = "a_save"
    /\ db' = SaveGameSession(db, GameSession(t.user, t.game, games[t.game].question,
                                             t.is_correct, response_time))
    /\ tasks' = [tasks EXCEPT ![k].pc = "a_send"]
    /\ UNCHANGED <<dbvars, scorevars, genvars, active_games, games, nanswers, log>>

\* save_game_session raises (rolled back): except, error message
\* (trivia.py:176, 212-217)
AnswerSaveRaises(k) ==
    LET t == tasks[k] IN
    /\ t.kind = "answer" /\ t.pc = "a_save"
    /\ tasks' = [tasks EXCEPT ![k].pc = "a_error", ![k].cause = "save"]
    /\ UNCHANGED <<db, dbvars, scorevars, genvars, active_games, games, nanswers, log>>

\* The result embed was sent (a_send), or the streak message was (a_streak).
\* After the result a due streak message is awaited; otherwise the game is
\* cleaned up and the handler returns, or the del raises KeyError into the
\* except clause                                          (trivia.py:195-217)
AnswerFinish(k) ==
    LET t == tasks[k]
        u == t.user
        sent == t.pc = "a_send"
    IN  /\ t.kind = "answer" /\ t.pc \in {"a_send", "a_streak"}
        /\ log' = IF sent THEN [log EXCEPT ![t.game].results = @ + 1] ELSE log
        /\ IF sent /\ t.streak_due
           THEN /\ tasks' = [tasks EXCEPT ![k].pc = "a_streak"]
                /\ UNCHANGED <<games, active_games>>
           ELSE /\ games' = Closed(games, t.game)
                /\ IF CanDel(u)
                   THEN /\ active_games' = Deleted(u)
                        /\ tasks' = [tasks EXCEPT ![k] = IdleTask]
                   ELSE /\ tasks' = [tasks EXCEPT ![k].pc = "a_error",
                                                  ![k].cause = "del"]
                        /\ UNCHANGED active_games
        /\ UNCHANGED <<db, dbvars, scorevars, genvars, nanswers>>

\* Producing or sending the result embed, or the streak message, raises:
\* except, error message                      (trivia.py:186-204, 212-217)
AnswerSendRaises(k) ==
    LET t == tasks[k] IN
    /\ t.kind = "answer" /\ t.pc \in {"a_send", "a_streak"}
    /\ tasks' = [tasks EXCEPT ![k].pc = "a_error", ![k].cause = "send"]
    /\ UNCHANGED <<db, dbvars, scorevars, genvars, active_games, games, nanswers, log>>

\* The result embed of a correct answer was sent and, as shipped,
\* `user.current_streak` on the user dict raises AttributeError: except,
\* error message, no cleanup                       (trivia.py:195-198, 212-217)
AnswerStreakRaises(k) ==
    LET t == tasks[k] IN
    /\ t.kind = "answer" /\ t.pc = "a_send" /\ t.is_correct
    /\ log' = [log EXCEPT ![t.game].results = @ + 1]
    /\ tasks' = [tasks EXCEPT ![k].pc = "a_error", ![k].cause = "streak"]
    /\ UNCHANGED <<db, dbvars, scorevars, genvars, active_games, games, nanswers>>

\* /skip up to its first await: the nothing-to-skip message, or the timeout
\* is cancelled and the reveal is being sent               (trivia.py:222-251)
SkipCmd(k, u) ==
    /\ FreeSlot(k)
    /\ IF ~IsActive(u)
       THEN /\ tasks' = [tasks EXCEPT ![k] = Started("skip", "s_reject", u)]
            /\ UNCHANGED games
       ELSE /\ games' = CancelTimeout(games, active_games[u])
            /\ tasks' = [tasks EXCEPT ![k] =
                   [Started("skip", "s_send", u) EXCEPT
                        !.game = active_games[u], !.seen = active_games[u]]]
    /\ UNCHANGED <<db, dbvars, scorevars, genvars, active_games, nanswers, log>>

\* The reveal was sent; the game is cleaned up           (trivia.py:251-261)
SkipFinish(k) ==
    LET t == tasks[k]
        u == t.user
    IN  /\ t.kind = "skip" /\ t.pc = "s_send"
        /\ games' = Closed(games, t.game)
        /\ log' = [log EXCEPT ![t.game].reveals = 1]
        /\ IF CanDel(u)
           THEN /\ active_games' = Deleted(u)
                /\ tasks' = [tasks EXCEPT ![k] = IdleTask]
           ELSE /\ tasks' = [tasks EXCEPT ![k].pc = "s_error", ![k].cause = "del"]
                /\ UNCHANGED active_games
        /\ UNCHANGED <<db, dbvars, scorevars, genvars, nanswers>>

\* The last message of a handler was sent (or its send raised): the handler
\* returns                    (trivia.py:63-67, 108-111, 121-125, 141-145,
\*                             214-217, 225-229, 261)
HandlerReturns(k) ==
    /\ tasks[k].pc \in ReplyPcs
    /\ tasks' = [tasks EXCEPT ![k] = IdleTask]
    /\ UNCHANGED <<db, dbvars, scorevars, genvars, active_games, games, nanswers, log>>

\* asyncio.sleep(30) is over: the timeout task of game g looks up the game
\* now registered for its user and starts sending          (trivia.py:305-323)
TimerFire(g) ==
    LET u == games[g].user_id IN
    /\ games[g].timeout_task = "sleeping"
    /\ games' = IF IsActive(u)
                THEN [games EXCEPT ![g].timeout_task = "sending",
                                   ![g].timer_game = active_games[u]]
                ELSE [games EXCEPT ![g].timeout_task = "done"]
    /\ UNCHANGED <<db, dbvars, scorevars, genvars, active_games, tasks, nanswers, log>>

\* The time's-up message was sent; the game is cleaned up; a KeyError of the
\* del is logged                                           (trivia.py:323-332)
TimerFinish(g) ==
    LET u == games[g].user_id
        tg == games[g].timer_game
    IN  /\ games[g].timeout_task = "sending"
        /\ games' = [Closed(games, tg) EXCEPT
                         ![g].timeout_task = "done", ![g].timer_game = NoGame]
        /\ log' = [log EXCEPT ![tg].timeups = 1]
        /\ active_games' = IF CanDel(u) THEN Deleted(u) ELSE active_games
        /\ UNCHANGED <<db, dbvars, scorevars, genvars, tasks, nanswers>>

Next ==
    \/ \E k \in Slots, u \in Players : TriviaCmd(k, u)
    \/ \E k \in Slots : TriviaUser(k)
    \/ \E k \in Slots, q \in GameQuestions : TriviaRegister(k, q)
    \/ \E k \in Slots : TriviaRaises(k)
    \/ \E k \in Slots : TriviaArm(k)
    \/ \E k \in Slots : TriviaSendRaises(k)
    \/ \E k \in Slots, u \in Players, raw \in RawAnswers : AnswerCmd(k, u, raw)
    \/ \E k \in Slots : AnswerRead(k)
    \/ \E k \in Slots : AnswerUser(k)
    \/ \E k \in Slots : AnswerUserRaises(k)
    \/ \E k \in Slots, rt \in ResponseTimes : AnswerSave(k, rt)
    \/ \E k \in Slots : AnswerSaveRaises(k)
    \/ \E k \in Slots : AnswerFinish(k)
    \/ \E k \in Slots : AnswerSendRaises(k)
    \/ \E k \in Slots : AnswerStreakRaises(k)
    \/ \E k \in Slots, u \in Players : SkipCmd(k, u)
    \/ \E k \in Slots : SkipFinish(k)
    \/ \E k \in Slots : HandlerReturns(k)
    \/ \E g \in 1..Len(games) : TimerFire(g)
    \/ \E g \in 1..Len(games) : TimerFinish(g)

Spec == InitDb /\ [][Next]_vars

\* What the event loop does with the handler in slot k by itself: the handler
\* resumes when what it awaits completes or fails.
Resumes(k) ==
    \/ TriviaUser(k)
    \/ \E q \in GameQuestions : TriviaRegister(k, q)
    \/ TriviaRaises(k)
    \/ TriviaArm(k)
    \/ TriviaSendRaises(k)
    \/ AnswerRead(k)
    \/ AnswerUser(k)
    \/ AnswerUserRaises(k)
    \/ AnswerSaveRaises(k)
    \/ \E rt \in ResponseTimes : AnswerSave(k, rt)
    \/ AnswerFinish(k)
    \/ AnswerSendRaises(k)
    \/ AnswerStreakRaises(k)
    \/ SkipFinish(k)
    \/ HandlerReturns(k)

\* The timeout task of session g runs: its sleep ends, its send completes.
TimerRuns(g) ==
    /\ g <= Len(games)
    /\ TimerFire(g) \/ TimerFinish(g)

\* Step A of a run with one question and one answer.
One(A) ==
    /\ A
    /\ Len(games') <= 1
    /\ nanswers' <= 1

NextOne ==
    \/ \E k \in Slots, u \in Players : One(TriviaCmd(k, u))
    \/ \E k \in Slots : One(TriviaUser(k))
    \/ \E k \in Slots, q \in GameQuestions : One(TriviaRegister(k, q))
    \/ \E k \in Slots : One(TriviaRaises(k))
    \/ \E k \in Slots : One(TriviaArm(k))
    \/ \E k \in Slots : One(TriviaSendRaises(k))
    \/ \E k \in Slots, u \in Players, raw \in RawAnswers : One(AnswerCmd(k, u, raw))
    \/ \E k \in Slots : One(AnswerRead(k))
    \/ \E k \in Slots : One(AnswerUser(k))
    \/ \E k \in Slots : One(AnswerUserRaises(k))
    \/ \E k \in Slots, rt \in ResponseTimes : One(AnswerSave(k, rt))
    \/ \E k \in Slots : One(AnswerSaveRaises(k))
    \/ \E k \in Slots : One(AnswerFinish(k))
    \/ \E k \in Slots : One(AnswerSendRaises(k))
    \/ \E k \in Slots : One(AnswerStreakRaises(k))
    \/ \E k \in Slots, u \in Players : One(SkipCmd(k, u))
    \/ \E k \in Slots : One(SkipFinish(k))
    \/ \E k \in Slots : One(HandlerReturns(k))
    \/ \E g \in 1..Len(games) : One(TimerFire(g))
    \/ \E g \in 1..Len(games) : One(TimerFinish(g))

\* The cog under fair scheduling, for one question and one answer: the event
\* loop does not leave a handler or a timeout task that can run waiting for
\* ever.  The commands are the users' and may never come.
SpecFair ==
    /\ InitDb /\ [][NextOne]_vars
    /\ \A k \in Slots : WF_vars(One(Resumes(k)))
    /\ WF_vars(One(TimerRuns(1)))

(***************************************************************************)
(* SpecTwo: the cog with two users, at most one question for each and one  *)
(* answer.                                                                 *)
(***************************************************************************)
\* Step A of a run with one question for each user and one answer.
Two(A) ==
    /\ A
    /\ nanswers' <= 1
    /\ \A u \in Users : Cardinality({g \in 1..Len(games') : games'[g].user_id = u}) <= 1

NextTwo ==
    \/ \E k \in Slots, u \in Users : Two(TriviaCmd(k, u))
    \/ \E k \in Slots : Two(TriviaUser(k))
    \/ \E k \in Slots, q \in GameQuestions : Two(TriviaRegister(k, q))
    \/ \E k \in Slots : Two(TriviaRaises(k))
    \/ \E k \in Slots : Two(TriviaArm(k))
    \/ \E k \in Slots : Two(TriviaSendRaises(k))
    \/ \E k \in Slots, u \in Users, raw \in RawAnswers : Two(AnswerCmd(k, u, raw))
    \/ \E k \in Slots : Two(AnswerRead(k))
    \/ \E k \in Slots : Two(AnswerUser(k))
    \/ \E k \in Slots : Two(AnswerUserRaises(k))
    \/ \E k \in Slots, rt \in ResponseTimes : Two(AnswerSave(k, rt))
    \/ \E k \in Slots : Two(AnswerSaveRaises(k))
    \/ \E k \in Slots : Two(AnswerFinish(k))
    \/ \E k \in Slots : Two(AnswerSendRaises(k))
    \/ \E k \in Slots : Two(AnswerStreakRaises(k))
    \/ \E k \in Slots, u \in Users : Two(SkipCmd(k, u))
    \/ \E k \in Slots : Two(SkipFinish(k))
    \/ \E k \in Slots : Two(HandlerReturns(k))
    \/ \E g \in 1..Len(games) : Two(TimerFire(g))
    \/ \E g \in 1..Len(games) : Two(TimerFinish(g))

SpecTwo == InitDb /\ [][NextTwo]_vars

(***************************************************************************)
(* SpecScore: the ScoringSystem functions, one call with arguments drawn   *)
(* from the sets below.                                                    *)
(***************************************************************************)
ScoreTimes == {0, 5, 10, 29, 30, 31, 50, 60}
Difficulties == {"easy", "medium", "hard", "expert"}
MaxTimes == {NoMaxTime, 10, 30, 50}
Streaks == (0 - 1)..13
\* The base scores calculate_score produces, and no score.
BaseScores == {0} \cup {CalculateScoreMax(TRUE, 0, d, NoMaxTime)[1] : d \in Difficulties}

CalculateScoreCalls ==
    { [NoCall EXCEPT !.fn = "calculate_score", !.is_correct = c,
                     !.response_time = rt, !.difficulty = d, !.max_time = mt] :
        c \in BOOLEAN, rt \in ScoreTimes, d \in Difficulties, mt \in MaxTimes }

CalculateStreakBonusCalls ==
    { [NoCall EXCEPT !.fn = "calculate_streak_bonus", !.streak = n,
                     !.base_score = b] :
        n \in Streaks, b \in BaseScores }

\* Arguments of normalize_score_for_leaderboard and get_performance_rating:
\* scores in hundredths, win rates in whole percent.
GamesPlayed == {0, 1, 2, 3, 4, 5, 10}
WinRates == {0, 25, 50, 75, 100}

NormalizeScoreCalls ==
    { [NoCall EXCEPT !.fn = "normalize_score_for_leaderboard", !.total_score = t,
                     !.games_played = g, !.win_rate = w] :
        t \in {0, 15000, 28693, 44142}, g \in GamesPlayed, w \in WinRates }

GetPerformanceRatingCalls ==
    { [NoCall EXCEPT !.fn = "get_performance_rating", !.win_rate = w,
                     !.avg_score = a, !.games_played = g] :
        w \in WinRates, a \in {0, 10000, 15000, 20000, 40000}, g \in GamesPlayed }

InitScore ==
    /\ db = EmptyDb
    /\ threads = [t \in Threads |-> IdleThread]
    /\ nsaves = 0
    /\ ncommitted = 0
    /\ InitCog
    /\ call \in CalculateScoreCalls \cup CalculateStreakBonusCalls
                \cup NormalizeScoreCalls \cup GetPerformanceRatingCalls
    /\ ret = NoRet
    /\ nret = 0
    /\ gen = NoGen

\* calculate_score keeping a running total between calls.
CalculateScoreCallAccumulating ==
    /\ call.fn = "calculate_score" /\ nret < MaxCalls
    /\ LET r == CalculateScoreMax(call.is_correct, call.response_time,
                                  call.difficulty, call.max_time)
       IN  ret' = IF ret = NoRet THEN r ELSE <<r[1], r[2], r[3] + ret[3]>>
    /\ nret' = nret + 1
    /\ UNCHANGED <<call, db, dbvars, cogvars, genvars>>

\* ScoringSystem.calculate_score returns                    (scoring.py:9-45)
\* The caller may repeat the call with the same arguments.
CalculateScoreCall ==
    /\ call.fn = "calculate_score" /\ nret < MaxCalls
    /\ ret' = CalculateScoreMax(call.is_correct, call.response_time,
                                call.difficulty, call.max_time)
    /\ nret' = nret + 1
    /\ UNCHANGED <<call, db, dbvars, cogvars, genvars>>

\* ScoringSystem.calculate_streak_bonus returns            (scoring.py:68-86)
CalculateStreakBonusCall ==
    /\ call.fn = "calculate_streak_bonus" /\ ret = NoRet
    /\ ret' = <<StreakBonus(call.streak, call.base_score)>>
    /\ nret' = nret + 1
    /\ UNCHANGED <<call, db, dbvars, cogvars, genvars>>

\* ScoringSystem.normalize_score_for_leaderboard returns  (scoring.py:89-113)
NormalizeScoreCall ==
    /\ call.fn = "normalize_score_for_leaderboard" /\ ret = NoRet
    /\ ret' = <<NormalizeScore(call.total_score, call.games_played, call.win_rate)>>
    /\ nret' = nret + 1
    /\ UNCHANGED <<call, db, dbvars, cogvars, genvars>>

\* ScoringSystem.get_performance_rating returns          (scoring.py:116-140)
GetPerformanceRatingCall ==
    /\ call.fn = "get_performance_rating" /\ ret = NoRet
    /\ ret' = <<PerformanceRating(call.win_rate, call.avg_score, call.games_played)>>
    /\ nret' = nret + 1
    /\ UNCHANGED <<call, db, dbvars, cogvars, genvars>>

NextScore ==
    \/ CalculateScoreCall
    \/ CalculateStreakBonusCall
    \/ NormalizeScoreCall
    \/ GetPerformanceRatingCall

SpecScore == InitScore /\ [][NextScore]_vars

(***************************************************************************)
(* SpecGen: TriviaGenerator.generate_question, one call with arguments      *)
(* drawn from the sets below, against a provider that answers each request  *)
(* with one of Responses or with an exception.  A text is the sequence of   *)
(* its words; the words of the model are lower-case already, except where   *)
(* Lower says otherwise.                                                    *)
(***************************************************************************)
\* TriviaGenerator.categories                             (generator.py:26-37)
Categories ==
    [ science |-> <<"Physics", "Chemistry", "Biology", "Astronomy", "Earth Science">>,
      history |-> <<"Ancient History", "Modern History", "World Wars",
                    "American History", "European History">>,
      geography |-> <<"World Geography", "Capitals", "Mountains", "Rivers", "Countries">>,
      entertainment |-> <<"Movies", "Music", "TV Shows", "Celebrities", "Games">>,
      sports |-> <<"Football", "Basketball", "Baseball", "Soccer", "Olympics">>,
      literature |-> <<"Classic Literature", "Poetry", "Authors", "Nobel Prize Winners">>,
      technology |-> <<"Computer Science", "Internet", "Inventions", "Software">>,
      art |-> <<"Painting", "Sculpture", "Architecture", "Famous Artists">>,
      food |-> <<"Cuisine", "Cooking", "Restaurants", "Ingredients">>,
      random |-> <<"Mixed Topics">> ]

\* TriviaGenerator.difficulties, TriviaGenerator.eras      (generator.py:39-40)
GeneratorDifficulties == {"easy", "medium", "hard"}
GeneratorEras == {"ancient", "medieval", "renaissance", "modern", "contemporary", "any"}

\* str.lower() on the strings of the model.
Lower(s) ==
    CASE s = "Science" -> "science"
      [] s = "HARD" -> "hard"
      [] s = "Modern" -> "modern"
      [] OTHER -> s

\* What _get_specific_category can return: random.choice over the table
\*                                                        (generator.py:89-101)
SpecificCategories(category) ==
    IF category = "random"
    THEN {"General Knowledge"} \cup
         UNION { { Categories[c][i] : i \in 1..Len(Categories[c]) } :
                    c \in (DOMAIN Categories) \ {"random"} }
    ELSE IF category \in DOMAIN Categories
         THEN { Categories[category][i] : i \in 1..Len(Categories[category]) }
         ELSE {category}

\* The provider's answers: the content of the completion as parsed by
\* json.loads (json: it is JSON at all; object: it is a JSON object).
GoodData ==
    [ question |-> <<"which", "planet", "has", "the", "most", "known", "moons">>,
      options |-> [A |-> <<"mars">>, B |-> <<"saturn">>, C |-> <<"venus">>,
                   D |-> <<"mercury">>],
      correct_answer |-> "B",
      explanation |-> "saturn has the most confirmed moons" ]
\* A good question; one that gives its answer away, without explanation; one
\* with three options; one whose answer is "E"; a JSON array; no JSON.
Responses ==
    { [json |-> TRUE, object |-> TRUE, data |-> GoodData],
      [json |-> TRUE, object |-> TRUE, data |->
          [ question |-> <<"which", "movie", "features", "luke", "skywalker", "in",
                           "star", "wars">>,
            options |-> [A |-> <<"star", "wars">>, B |-> <<"alien">>, C |-> <<"dune">>,
                         D |-> <<"blade", "runner">>],
            correct_answer |-> "A" ]],
      [json |-> TRUE, object |-> TRUE, data |->
          [ question |-> GoodData.question,
            options |-> [A |-> <<"mars">>, B |-> <<"saturn">>, C |-> <<"venus">>],
            correct_answer |-> "B",
            explanation |-> "" ]],
      [json |-> TRUE, object |-> TRUE, data |-> [GoodData EXCEPT !.correct_answer = "E"]],
      [json |-> TRUE, object |-> FALSE, data |-> <<>>],
      [json |-> FALSE, object |-> FALSE, data |-> <<>>] }

\* The exceptions of the model: raised by the provider's client
\* (generator.py:236-246), by data[...] on a JSON array, by _parse_response
\* (289).  All are subclasses of Exception.
ProviderExceptions == {"APIError", "AttributeError"}
Exceptions == ProviderExceptions \cup {"TypeError", "ValueError"}

\* _parse_response: the question, or the exception raised (generator.py:252-289)
ParseResponse(response, category, difficulty, era) ==
    IF ~response.json
    THEN [exc |-> "ValueError", question |-> NoQuestion]
    ELSE IF ~response.object
    THEN [exc |-> "TypeError", question |-> NoQuestion]
    ELSE LET data == response.data
         IN  IF \/ ~({"question", "options", "correct_answer"} \subseteq DOMAIN data)
                \/ ~({"A", "B", "C", "D"} \subseteq DOMAIN data.options)
             THEN [exc |-> "ValueError", question |-> NoQuestion]
             ELSE [exc |-> "",
                   question |->
                     [ question |-> data.question,
                       options |-> <<data.options["A"], data.options["B"],
                                     data.options["C"], data.options["D"]>>,
                       correct_answer |-> data.correct_answer,
                       category |-> category,
                       difficulty |-> difficulty,
                       era |-> IF era # "any" THEN era ELSE None,
                       explanation |-> IF "explanation" \in DOMAIN data
                                       THEN data.explanation ELSE "" ]]

Words(text) == { text[i] : i \in 1..Len(text) }

\* len() of a text: its words and the blanks between them.
RECURSIVE TextLen(_)
TextLen(text) ==
    IF text = <<>> THEN 0
    ELSE Len(Head(text)) + (IF Len(text) > 1 THEN 1 ELSE 0) + TextLen(Tail(text))

CommonWords ==
    {"the", "a", "an", "and", "or", "of", "in", "on", "at", "to", "for", "with", "by"}

\* _validate_question_quality                            (generator.py:200-231)
\* options[ord(correct_answer) - ord('A')] raises for an answer beyond "D",
\* and the except clause lets the question through.
ValidateQuestionQuality(question) ==
    IF question.correct_answer \notin {"A", "B", "C", "D"}
    THEN TRUE
    ELSE LET index == CASE question.correct_answer = "A" -> 1
                        [] question.correct_answer = "B" -> 2
                        [] question.correct_answer = "C" -> 3
                        [] question.correct_answer = "D" -> 4
             correct_words == Words(question.options[index]) \ CommonWords
             question_words == Words(question.question) \ CommonWords
         IN  IF /\ correct_words # {}
                /\ 2 * Cardinality(correct_words \cap question_words)
                      > Cardinality(correct_words)
             THEN FALSE
             ELSE IF TextLen(question.question) < 20
             THEN FALSE
             ELSE Cardinality({ TextLen(question.options[i]) : i \in 1..4 }) # 1

\* fallback_questions                                    (generator.py:293-312)
FallbackQuestions ==
    [ easy |-> [ question |-> <<"what", "is", "the", "capital", "of", "france?">>,
                 options |-> <<<<"london">>, <<"berlin">>, <<"paris">>, <<"madrid">>>>,
                 correct_answer |-> "C",
                 explanation |-> "paris has been the capital of france since ancient times." ],
      medium |-> [ question |-> <<"which", "planet", "is", "known", "as", "the",
                                  "red", "planet?">>,
                   options |-> <<<<"venus">>, <<"mars">>, <<"jupiter">>, <<"saturn">>>>,
                   correct_answer |-> "B",
                   explanation |-> "mars appears red due to iron oxide (rust) on its surface." ],
      hard |-> [ question |-> <<"what", "is", "the", "smallest", "prime", "number?">>,
                 options |-> <<<<"0">>, <<"1">>, <<"2">>, <<"3">>>>,
                 correct_answer |-> "C",
                 explanation |-> "2 is the smallest and only even prime number." ] ]

\* _get_fallback_question                                (generator.py:291-323)
GetFallbackQuestion(category, difficulty) ==
    LET fallback == IF difficulty \in DOMAIN FallbackQuestions
                    THEN FallbackQuestions[difficulty]
                    ELSE FallbackQuestions["medium"]
    IN  [ question |-> fallback.question,
          options |-> fallback.options,
          correct_answer |-> fallback.correct_answer,
          category |-> category,
          difficulty |-> difficulty,
          era |-> None,
          explanation |-> fallback.explanation ]

\* An except clause for parsing failures alone.
CaughtValueError(exc) == exc = "ValueError"

\* `except Exception` of generate_question                  (generator.py:84)
Caught(exc) == exc \in Exceptions

\* generate_question after exception exc inside its try block: the fallback
\* question, built from the locals as they are          (generator.py:84-87)
Failed(g, exc) ==
    IF Caught(exc)
    THEN [g EXCEPT !.pc = "returned", !.exc = exc,
                   !.result = GetFallbackQuestion(g.category, g.difficulty)]
    ELSE [g EXCEPT !.pc = "raised", !.exc = exc]

\* The arguments of the call: the default category, a listed one in mixed
\* case, a custom one; difficulties in both cases and an unknown one.
GenerateQuestionCalls ==
    { [NoGen EXCEPT !.pc = "called",
                    !.requested = [category |-> c, difficulty |-> d, era |-> e],
                    !.category = c, !.difficulty = d, !.era = e] :
        c \in {"random", "Science", "star trek"},
        d \in {"easy", "medium", "HARD", "expert"},
        e \in {"any", "Modern"} }

InitGen ==
    /\ db = EmptyDb
    /\ threads = [t \in Threads |-> IdleThread]
    /\ nsaves = 0
    /\ ncommitted = 0
    /\ InitCog
    /\ call = NoCall
    /\ ret = NoRet
    /\ nret = 0
    /\ gen \in GenerateQuestionCalls

\* generate_question up to the first request: the arguments normalised and
\* validated, the subcategory chosen, the prompt made       (generator.py:50-66)
GenerateQuestion ==
    /\ gen.pc = "called"
    /\ LET category == Lower(gen.category)
           difficulty == IF Lower(gen.difficulty) \in GeneratorDifficulties
                         THEN Lower(gen.difficulty) ELSE "medium"
           era == IF Lower(gen.era) \in GeneratorEras THEN Lower(gen.era) ELSE "any"
       IN  \E specific_category \in SpecificCategories(category) :
              gen' = [gen EXCEPT !.pc = "first", !.category = category,
                                 !.difficulty = difficulty, !.era = era,
                                 !.specific_category = specific_category]
    /\ UNCHANGED <<db, dbvars, cogvars, scorevars>>

\* _call_openai raises at either request                 (generator.py:233-250)
OpenAIRaises ==
    /\ gen.pc \in {"first", "second"}
    /\ \E exc \in ProviderExceptions :
          gen' = Failed([gen EXCEPT !.ncalls = @ + 1], exc)
    /\ UNCHANGED <<db, dbvars, cogvars, scorevars>>

\* The first request returns: the response is parsed and the question checked
\* for quality; a question that fails the check is asked for again
\*                                                        (generator.py:66-79)
OpenAIReturns(response) ==
    /\ gen.pc = "first"
    /\ LET g == [gen EXCEPT !.ncalls = @ + 1]
           parsed == ParseResponse(response, gen.specific_category, gen.difficulty,
                                   gen.era)
       IN  gen' = IF parsed.exc # "" THEN Failed(g, parsed.exc)
                  ELSE IF ValidateQuestionQuality(parsed.question)
                  THEN [g EXCEPT !.pc = "returned", !.result = parsed.question]
                  ELSE [g EXCEPT !.pc = "second"]
    /\ UNCHANGED <<db, dbvars, cogvars, scorevars>>

\* A second request whose question is checked like the first and asked for
\* again when it fails.
OpenAIReturnsAgainChecked(response) ==
    /\ gen.pc = "second"
    /\ LET g == [gen EXCEPT !.ncalls = @ + 1]
           parsed == ParseResponse(response, gen.specific_category, gen.difficulty,
                                   gen.era)
       IN  gen' = IF parsed.exc # "" THEN Failed(g, parsed.exc)
                  ELSE IF ValidateQuestionQuality(parsed.question)
                  THEN [g EXCEPT !.pc = "returned", !.result = parsed.question]
                  ELSE g
    /\ UNCHANGED <<db, dbvars, cogvars, scorevars>>

\* The second request returns: the response is parsed and the question
\* returned as it is                                      (generator.py:77-82)
OpenAIReturnsAgain(response) ==
    /\ gen.pc = "second"
    /\ LET g == [gen EXCEPT !.ncalls = @ + 1]
           parsed == ParseResponse(response, gen.specific_category, gen.difficulty,
                                   gen.era)
       IN  gen' = IF parsed.exc # "" THEN Failed(g, parsed.exc)
                  ELSE [g EXCEPT !.pc = "returned", !.result = parsed.question]
    /\ UNCHANGED <<db, dbvars, cogvars, scorevars>>

NextGen ==
    \/ GenerateQuestion
    \/ OpenAIRaises
    \/ \E response \in Responses : OpenAIReturns(response)
    \/ \E response \in Responses : OpenAIReturnsAgain(response)

SpecGen == InitGen /\ [][NextGen]_vars

(***************************************************************************)
(* SpecUpdate: the in-memory updates of the User row and of the UserStats   *)
(* row by one recorded game, applied to rows that earlier games produce.    *)
(***************************************************************************)
MaxHistory == 4       \* games behind a User row
MaxPlayed == 11       \* games behind a UserStats row

\* A game of user u1 in category science (medium), answered after 30 s or,
\* the game being recorded, after response_time.
RecordedGame(is_correct, response_time) ==
    GameSession("u1", 0, [category |-> "science", difficulty |-> "medium"],
                is_correct, response_time)

\* Results of the games behind a User row, oldest first.
Histories == UNION { [1..n -> BOOLEAN] : n \in 0..MaxHistory }

\* The User row after the games of history              (database.py:268-300)
RECURSIVE UserAfter(_)
UserAfter(history) ==
    IF history = <<>> THEN NewUser
    ELSE LET n == Len(history)
         IN  UpdatedUser(UserAfter(SubSeq(history, 1, n - 1)),
                         RecordedGame(history[n], 30))

\* The UserStats row after `played` games of which the first `won` were won
\*                                                     (database.py:325-362)
RECURSIVE StatsAfter(_, _)
StatsAfter(played, won) ==
    IF played = 0 THEN NewUserStats
    ELSE UpdatedUserStats(StatsAfter(played - 1, Min(won, played - 1)),
                          RecordedGame(played <= won, 30))

UpdateUserStatsCalls ==
    { [NoCall EXCEPT !.fn = "_update_user_stats_sync", !.user = UserAfter(h),
                     !.game = RecordedGame(c, rt)] :
        h \in Histories, c \in BOOLEAN, rt \in ResponseTimes }

UpdateCategoryStatsCalls ==
    { [NoCall EXCEPT !.fn = "_update_category_stats_sync",
                     !.stats = StatsAfter(played, won),
                     !.game = RecordedGame(c, rt)] :
        played \in 0..MaxPlayed, won \in 0..MaxPlayed, c \in BOOLEAN,
        rt \in ResponseTimes }

InitUpdate ==
    /\ db = EmptyDb
    /\ threads = [t \in Threads |-> IdleThread]
    /\ nsaves = 0
    /\ ncommitted = 0
    /\ InitCog
    /\ call \in UpdateUserStatsCalls \cup UpdateCategoryStatsCalls
    /\ ret = NoRet
    /\ nret = 0
    /\ gen = NoGen

\* _update_user_stats_sync has updated the User row     (database.py:268-300)
UpdateUserStatsCall ==
    /\ call.fn = "_update_user_stats_sync" /\ ret = NoRet
    /\ ret' = <<UpdatedUser(call.user, call.game)>>
    /\ nret' = nret + 1
    /\ UNCHANGED <<call, db, dbvars, cogvars, genvars>>

\* _update_category_stats_sync has updated the UserStats row
\*                                                     (database.py:338-362)
UpdateCategoryStatsCall ==
    /\ call.fn = "_update_category_stats_sync" /\ ret = NoRet
    /\ ret' = <<UpdatedUserStats(call.stats, call.game)>>
    /\ nret' = nret + 1
    /\ UNCHANGED <<call, db, dbvars, cogvars, genvars>>

NextUpdate ==
    \/ UpdateUserStatsCall
    \/ UpdateCategoryStatsCall

SpecUpdate == InitUpdate /\ [][NextUpdate]_vars

(***************************************************************************)
(* SpecBoard: get_leaderboard and /leaderboard over the tables that games  *)
(* recorded one after the other leave.                                     *)
(***************************************************************************)
\* The tables after the games of hs[u] of every user u in DOMAIN hs have been
\* recorded one after the other, all in category science   (database.py:203-362)
DbAfter(hs) ==
    LET Wins(h) == Cardinality({i \in 1..Len(h) : h[i]})
        GamesOf(u) ==
            IF u \in DOMAIN hs
            THEN [i \in 1..Len(hs[u]) |->
                     GameSession(u, 0, [category |-> "science", difficulty |-> "medium"],
                                 hs[u][i], 30)]
            ELSE <<>>
    IN  [ users |-> [u \in DOMAIN hs |-> UserAfter(hs[u])],
          user_stats |-> [k \in {<<u, "science">> : u \in {v \in DOMAIN hs : hs[v] # <<>>}} |->
                             StatsAfter(Len(hs[k[1]]), Wins(hs[k[1]]))],
          game_sessions |-> GamesOf("u1") \o GamesOf("u2") ]

\* User.win_rate in whole percent                              (models.py:28-33)
WinRate(user) ==
    IF user.total_games = 0 THEN 0
    ELSE (user.total_wins * 100) \div user.total_games

\* The lists get_leaderboard can return: the users ordered by total_score,
\* highest first, users of equal total_score in either order, cut after
\* limit                                                  (database.py:479-488)
GetLeaderboard(d, limit) ==
    LET ids == DOMAIN d.users
        n == Cardinality(ids)
        Ordered == { s \in [1..n -> ids] :
                       /\ \A i, j \in 1..n : i # j => s[i] # s[j]
                       /\ \A i, j \in 1..n :
                              i < j => d.users[s[i]].total_score >= d.users[s[j]].total_score }
    IN  { SubSeq(s, 1, Min(limit, n)) : s \in Ordered }

\* The histories have 0, 1, 2 or 4 games, the numbers of games for which the
\* win rate is a whole percent.
InitBoard ==
    /\ \E ids \in SUBSET Users :
           \E hs \in [ids -> {h \in Histories : Len(h) # 3}] : db = DbAfter(hs)
    /\ threads = [t \in Threads |-> IdleThread]
    /\ nsaves = 0
    /\ ncommitted = 0
    /\ InitCog
    /\ call = NoCall
    /\ ret = NoRet
    /\ nret = 0
    /\ gen = NoGen

\* get_leaderboard('global', None, limit) has returned     (database.py:479-488)
GetLeaderboardCall(limit) ==
    /\ ret = NoRet
    /\ \E users \in GetLeaderboard(db, limit) :
           ret' = <<[fn |-> "get_leaderboard", exc |-> FALSE, limit |-> limit,
                     users |-> users, shown |-> <<>>]>>
    /\ nret' = nret + 1
    /\ UNCHANGED <<call, db, dbvars, cogvars, genvars>>

\* /leaderboard has sent its embed: the users of get_leaderboard(limit=10) in
\* the order returned, each with its normalized score         (stats.py:89-130)
LeaderboardCmd ==
    /\ ret = NoRet
    /\ \E users \in GetLeaderboard(db, 10) :
           ret' = <<[fn |-> "leaderboard", exc |-> FALSE, limit |-> 10,
                     users |-> users,
                     shown |-> [i \in 1..Len(users) |->
                                   NormalizeScore(db.users[users[i]].total_score,
                                                  db.users[users[i]].total_games,
                                                  WinRate(db.users[users[i]]))]]>>
    /\ nret' = nret + 1
    /\ UNCHANGED <<call, db, dbvars, cogvars, genvars>>

\* get_leaderboard or the reading of a returned row raises: /leaderboard
\* answers "Error retrieving leaderboard."              (stats.py:96, 131-133)
LeaderboardRaises ==
    /\ ret = NoRet
    /\ ret' = <<[fn |-> "leaderboard", exc |-> TRUE, limit |-> 10,
                 users |-> <<>>, shown |-> <<>>]>>
    /\ nret' = nret + 1
    /\ UNCHANGED <<call, db, dbvars, cogvars, genvars>>

NextBoard ==
    \/ \E limit \in {1, 10} : GetLeaderboardCall(limit)
    \/ LeaderboardCmd
    \/ LeaderboardRaises

SpecBoard == InitBoard /\ [][NextBoard]_vars

(***************************************************************************)
(* SpecUsers: get_or_create_user.  The users table is kept here as the     *)
(* sequence of its rows in the order of insertion (the index is the        *)
(* primary key id), so that two rows of one discord_id can be told from    *)
(* one; a row is discord_id, username and the counters of NewUser.  A call *)
(* runs in a worker thread with a session of its own: the query is one     *)
(* step, the insert or the update with its commit another.                 *)
(***************************************************************************)
MaxUserCalls == 3

\* An insert that no index refuses.
UniqueViolationNever(rows, discord_id) == FALSE

\* discord_id = Column(String(20), unique=True, nullable=False): the unique
\* index refuses a second row of the same discord_id        (models.py:12)
UniqueViolation(rows, discord_id) ==
    \E i \in 1..Len(rows) : rows[i].discord_id = discord_id

\* The dict get_or_create_user returns for a row, or the exception it raises
\*                                                     (database.py:160-173)
UserDict(row, exc) ==
    [ fn |-> "get_or_create_user", exc |-> exc, discord_id |-> row.discord_id,
      username |-> row.username, counters |-> row.counters ]

\* session.query(User).filter(User.discord_id == discord_id).first()
\*                                                         (database.py:136)
GetOrCreateUserQuery(t, u, name) ==
    /\ threads[t].pc = "idle"
    /\ nret + Cardinality({t2 \in Threads : threads[t2].pc # "idle"}) < MaxUserCalls
    /\ \/ /\ \A i \in 1..Len(db.users) : db.users[i].discord_id # u
          /\ threads' = [threads EXCEPT ![t] =
                 [pc |-> "missing", discord_id |-> u, username |-> name, id |-> 0]]
       \/ \E i \in 1..Len(db.users) :
             /\ db.users[i].discord_id = u
             /\ threads' = [threads EXCEPT ![t] =
                    [pc |-> "found", discord_id |-> u, username |-> name, id |-> i]]
    /\ UNCHANGED <<db, nsaves, ncommitted, cogvars, scorevars, genvars>>

\* if not user: the new row is added, flushed and committed; when the index
\* refuses it the IntegrityError goes through rollback to the caller
\*                                                     (database.py:138-178)
GetOrCreateUserInsert(t) ==
    LET th == threads[t]
        row == [discord_id |-> th.discord_id, username |-> th.username,
                counters |-> NewUser]
    IN  /\ th.pc = "missing"
        /\ IF UniqueViolation(db.users, th.discord_id)
           THEN /\ ret' = <<UserDict(row, "IntegrityError")>>
                /\ UNCHANGED db
           ELSE /\ ret' = <<UserDict(row, "")>>
                /\ db' = [db EXCEPT !.users = Append(@, row)]
        /\ threads' = [threads EXCEPT ![t] = IdleThread]
        /\ nret' = nret + 1
        /\ UNCHANGED <<call, nsaves, ncommitted, cogvars, genvars>>

\* else: the username is updated when it differs; commit; the dict is read
\* from the row                                        (database.py:153-169)
GetOrCreateUserUpdate(t) ==
    LET th == threads[t] IN
    /\ th.pc = "found"
    /\ db' = [db EXCEPT !.users[th.id].username = th.username]
    /\ ret' = <<UserDict(db'.users[th.id], "")>>
    /\ threads' = [threads EXCEPT ![t] = IdleThread]
    /\ nret' = nret + 1
    /\ UNCHANGED <<call, nsaves, ncommitted, cogvars, genvars>>

\* A first game of the user of row i, won, is recorded between the calls
\*                                                     (database.py:253-300)
FirstGameRecorded(i) ==
    /\ db.users[i].counters.total_games = 0
    /\ db' = [db EXCEPT !.users[i].counters = UpdatedUser(@, RecordedGame(TRUE, 30))]
    /\ UNCHANGED <<dbvars, cogvars, scorevars, genvars>>

NextUsers ==
    \/ \E t \in Threads, u \in Users, name \in {"ann", "anna"} : GetOrCreateUserQuery(t, u, name)
    \/ \E t \in Threads : GetOrCreateUserInsert(t)
    \/ \E t \in Threads : GetOrCreateUserUpdate(t)
    \/ \E i \in 1..Len(db.users) : FirstGameRecorded(i)

SpecUsers == InitDb /\ [][NextUsers]_vars

(***************************************************************************)
(* Properties.                                                             *)
(***************************************************************************)
\* The GameSession rows committed for game g.
RecordsOf(g) ==
    {i \in 1..Len(db.game_sessions) : db.game_sessions[i].sid = g}

\* The GameSession rows committed for user u.
RecordsOfUser(u) ==
    {i \in 1..Len(db.game_sessions) : db.game_sessions[i].user_id = u}

C8_AllOrNothing ==
    [][/\ \A t \in Threads :
             (threads[t].pc # "idle" /\ threads'[t].pc = "idle") =>
                LET th == threads[t] IN
                IF ncommitted' = ncommitted
                THEN db' = db
                ELSE /\ th.has_user /\ th.has_stats
                     /\ db'.game_sessions = Append(db.game_sessions, th.game)
                     /\ db'.users[th.game.user_id] = th.user
                     /\ db'.user_stats[<<th.game.user_id, th.game.category>>] = th.stats
       /\ (\A t \in Threads : threads'[t].pc # "idle" \/ threads[t].pc = "idle") =>
             /\ db'.game_sessions = db.game_sessions
             /\ db'.user_stats = db.user_stats
             /\ \A u \in DOMAIN db.users : db'.users[u] = db.users[u]]_vars

\* One call was rolled back after its insert and one was committed: the
\* tables hold exactly the committed one.
C8_Witness ==
    /\ nsaves = 2 /\ ncommitted = 1
    /\ \A t \in Threads : threads[t].pc = "idle"
    /\ Len(db.game_sessions) = 1
    /\ \E u \in DOMAIN db.users : db.users[u].total_games = 1

C10_UserInvariants ==
    \A u \in DOMAIN db.users :
        LET r == db.users[u] IN
        /\ r.total_games >= 0 /\ r.total_wins >= 0 /\ r.total_score >= 0
        /\ r.current_streak >= 0 /\ r.best_streak >= 0
        /\ r.total_wins <= r.total_games
        /\ r.best_streak >= r.current_streak

\* A win followed by a loss: the streak is reset, the best streak is kept.
C10_Witness ==
    \E u \in DOMAIN db.users :
        LET r == db.users[u] IN
        /\ r.total_games = 2 /\ r.total_wins = 1
        /\ r.current_streak = 0 /\ r.best_streak = 1

\* The sum of the response times of the rows S of game_sessions.
RECURSIVE SumResponseTimes(_)
SumResponseTimes(S) ==
    IF S = {} THEN 0
    ELSE LET i == CHOOSE x \in S : TRUE
         IN  db.game_sessions[i].response_time + SumResponseTimes(S \ {i})

C13_NoActiveRejected ==
    [][\A k \in Slots :
          /\ (tasks[k].kind = "idle" /\ tasks'[k].kind \in {"answer", "skip"}
                 /\ ~IsActive(tasks'[k].user))
             => /\ tasks'[k].pc \in {"a_reject", "s_reject"}
                /\ UNCHANGED <<db, active_games, games, log>>
          /\ (tasks[k].pc \in {"a_reject", "s_reject"} /\ tasks'[k] # tasks[k])
             => /\ tasks'[k] = IdleTask
                /\ UNCHANGED <<db, active_games, games, log>>]_vars

\* An /answer and a /skip are both being rejected.
C13_Witness ==
    /\ tasks[1].pc = "a_reject"
    /\ tasks[2].pc = "s_reject"

\* C14: a /trivia dispatched while the user has an active session ends in the
\* already-active message and leaves the session as it is (question, timeout
\* task, registry entry); the handler requests no question and returns.
C14_AlreadyActiveRejected ==
    [][\A k \in Slots :
          /\ (tasks[k].kind = "idle" /\ tasks'[k].kind = "trivia"
                 /\ IsActive(tasks'[k].user))
             => /\ tasks'[k].pc = "t_reject"
                /\ UNCHANGED <<db, active_games, games, log>>
          /\ (tasks[k].pc = "t_reject" /\ tasks'[k] # tasks[k])
             => /\ tasks'[k] = IdleTask
                /\ UNCHANGED <<db, active_games, games, log>>]_vars

\* A /trivia is being rejected while the user's session is active with its
\* timeout armed.
C14_Witness ==
    \E k \in Slots :
        /\ tasks[k].pc = "t_reject"
        /\ IsActive(tasks[k].user)
        /\ games[active_games[tasks[k].user]].timeout_task = "sleeping"

\* C15: a /trivia of a user with no active session succeeds: once the user row
\* is loaded the handler does not end in the apology, and when it returns the
\* registry holds its game, active, the only active game of the user, with
\* its timeout armed.
C15_StartSucceeds ==
    [][\A k \in Slots :
          /\ (tasks[k].kind = "trivia" /\ tasks[k].pc = "t_gen")
             => tasks'[k].pc \in {"t_gen", "t_send"}
          /\ (tasks[k].kind = "trivia" /\ tasks[k].pc = "t_send"
                 /\ tasks'[k].kind = "idle")
             => LET u == tasks[k].user
                    g == tasks[k].game
                IN  /\ active_games'[u] = g
                    /\ games'[g].is_active
                    /\ games'[g].timeout_task = "sleeping"
                    /\ \A g2 \in 1..Len(games') :
                          (games'[g2].user_id = u /\ games'[g2].is_active) => g2 = g]_vars

\* A calculate_score call has returned.
ScoreReturned == call.fn = "calculate_score" /\ ret # NoRet

\* C16: for an incorrect answer calculate_score returns base 0, bonus 0 and
\* total 0, whatever the response time, the difficulty and the max time.
C16_IncorrectScoresZero ==
    (ScoreReturned /\ ~call.is_correct) => ret = <<0, 0, 0>>

\* The fastest incorrect answer to a hard question.
C16_Witness ==
    /\ ScoreReturned /\ ~call.is_correct
    /\ call.response_time = 0 /\ call.difficulty = "hard" /\ call.max_time = 50

\* C17: for a correct answer the base score is BASE_POINTS x 1.0 for easy,
\* x 1.5 for medium and x 2.0 for hard, whatever the response time: the
\* bases of easy, medium and hard are in ratio 1 : 1.5 : 2.
C17_BaseScore ==
    (ScoreReturned /\ call.is_correct) =>
        /\ call.difficulty = "easy" => ret[1] = BASE_POINTS * 100
        /\ call.difficulty = "medium" => ret[1] = BASE_POINTS * 150
        /\ call.difficulty = "hard" => ret[1] = BASE_POINTS * 200
        /\ LET base(d) == CalculateScoreMax(TRUE, call.response_time, d, call.max_time)[1]
           IN  /\ 2 * base("medium") = 3 * base("easy")
               /\ base("hard") = 2 * base("easy")

\* A correct answer to a hard question, given after the time limit.
C17_Witness ==
    /\ ScoreReturned /\ call.is_correct
    /\ call.difficulty = "hard" /\ call.response_time = 60
    /\ ret[1] = 20000

\* C18: for a correct answer a response time at or above the max time gives
\* speed bonus 0, response time 0 gives base x MAX_SPEED_BONUS, and no bonus
\* is larger than that.
C18_SpeedBonusEnds ==
    (ScoreReturned /\ call.is_correct) =>
        /\ call.response_time >= (IF call.max_time = NoMaxTime
                                  THEN DEFAULT_QUESTION_TIMEOUT
                                  ELSE call.max_time) => ret[2] = 0
        /\ call.response_time = 0 => ret[2] * 100 = ret[1] * MAX_SPEED_BONUS_PCT
        /\ ret[2] * 100 <= ret[1] * MAX_SPEED_BONUS_PCT

\* An immediate correct answer gets the whole bonus.
C18_Witness ==
    /\ ScoreReturned /\ call.is_correct
    /\ call.response_time = 0 /\ call.max_time = 10
    /\ ret[2] = ret[1] /\ ret[1] > 0

C20_StreakBonus ==
    (call.fn = "calculate_streak_bonus" /\ ret # NoRet) =>
        /\ call.streak <= 1 => ret[1] = 0
        /\ (call.streak > 1 /\ call.streak < 11)
              => ret[1] * 10 = call.base_score * (call.streak - 1)
        /\ call.streak >= 11 => ret[1] = call.base_score
        /\ \A n \in Streaks :
              n <= call.streak => StreakBonus(n, call.base_score) <= ret[1]

\* A streak beyond the cap.
C20_Witness ==
    /\ call.fn = "calculate_streak_bonus" /\ ret # NoRet
    /\ call.streak = 13 /\ call.base_score = 15000
    /\ ret = <<15000>>

\* A get_performance_rating call has returned.
RatingReturned == call.fn = "get_performance_rating" /\ ret # NoRet

\* C21: get_performance_rating returns "Novice" whenever games_played < 5,
\* whatever the win rate and the average score; from 5 games on it rates the
\* composite win_rate * 0.6 + min(avg_score / 200, 1.0) * 40: Grandmaster from
\* 85, Expert from 75, Advanced from 65, Intermediate from 50, Beginner from
\* 35, Learning below 35.  (Composite in thousandths, avg_score in hundredths.)
C21_PerformanceRating ==
    RatingReturned =>
        LET capped == IF call.avg_score >= 20000 THEN 40000 ELSE call.avg_score * 2
            composite == call.win_rate * 600 + capped
        IN  /\ call.games_played < 5 => ret[1] = "Novice"
            /\ call.games_played >= 5 =>
                  /\ ret[1] = "Grandmaster" <=> composite >= 85000
                  /\ ret[1] = "Expert" <=> (composite >= 75000 /\ composite < 85000)
                  /\ ret[1] = "Advanced" <=> (composite >= 65000 /\ composite < 75000)
                  /\ ret[1] = "Intermediate" <=> (composite >= 50000 /\ composite < 65000)
                  /\ ret[1] = "Beginner" <=> (composite >= 35000 /\ composite < 50000)
                  /\ ret[1] = "Learning" <=> composite < 35000

\* A player with a perfect record after 4 games is rated Novice.
C21_Witness ==
    /\ RatingReturned /\ call.games_played = 4
    /\ call.win_rate = 100 /\ call.avg_score = 40000 /\ ret[1] = "Novice"

\* A normalize_score_for_leaderboard call has returned.
NormalizeReturned == call.fn = "normalize_score_for_leaderboard" /\ ret # NoRet

\* C22: normalize_score_for_leaderboard returns 0 whenever games_played is 0,
\* for every total score and every win rate.
C22_NoGamesNormalizeToZero ==
    (NormalizeReturned /\ call.games_played = 0) => ret = <<0>>

\* No games, yet a total score and a win rate that would give a positive score.
C22_Witness ==
    /\ NormalizeReturned /\ call.games_played = 0
    /\ call.total_score = 44142 /\ call.win_rate = 100 /\ ret = <<0>>

ReturnedAfterFailure == gen.pc = "returned" /\ gen.exc # ""

\* The fallback question of the requested difficulty, compared without regard
\* to case; of medium when the difficulty is not one of easy, medium, hard.
FallbackOfRequested ==
    IF Lower(gen.requested.difficulty) \in {"easy", "medium", "hard"}
    THEN FallbackQuestions[Lower(gen.requested.difficulty)]
    ELSE FallbackQuestions["medium"]

\* C24 as stated: generate_question never propagates a provider or parsing
\* failure; after a failure it returns the fallback question of the requested
\* difficulty (medium for an unknown difficulty), and the category of that
\* question is the requested category.
C24_FallbackCarriesRequestedCategory ==
    /\ gen.pc # "raised"
    /\ ReturnedAfterFailure =>
          /\ gen.result.question = FallbackOfRequested.question
          /\ gen.result.options = FallbackOfRequested.options
          /\ gen.result.correct_answer = FallbackOfRequested.correct_answer
          /\ gen.result.category = gen.requested.category

\* C24: generate_question never propagates a provider or parsing failure; after
\* a failure it returns the fallback question of the requested difficulty
\* (medium for an unknown difficulty), and the category of that question is
\* the requested category in lower case.
C24_FallbackOnFailure ==
    /\ gen.pc # "raised"
    /\ ReturnedAfterFailure =>
          /\ gen.result.question = FallbackOfRequested.question
          /\ gen.result.options = FallbackOfRequested.options
          /\ gen.result.correct_answer = FallbackOfRequested.correct_answer
          /\ gen.result.category = Lower(gen.requested.category)

\* The provider fails at the second request for a hard Science question.
C24_Witness ==
    /\ ReturnedAfterFailure /\ gen.exc = "APIError" /\ gen.ncalls = 2
    /\ gen.requested.category = "Science" /\ gen.requested.difficulty = "HARD"
    /\ gen.result.category = "science" /\ gen.result.correct_answer = "C"

C27_MonotonicRegistryActive ==
    [][/\ \A g \in 1..Len(games) : ~games[g].is_active => ~games'[g].is_active
       /\ \A u \in Users :
             active_games'[u] # NoGame => games'[active_games'[u]].is_active]_vars

\* Session 1 was answered and removed, session 2 is registered and Active.
C27_Witness ==
    /\ Len(games) = 2 /\ ~games[1].is_active /\ log[1].results = 1
    /\ active_games["u1"] = 2 /\ games[2].is_active

\* The User row has been updated with the game of the call.
UserUpdated == call.fn = "_update_user_stats_sync" /\ ret # NoRet

\* C28: recording a correct game adds 1 to total_wins and to current_streak
\* and sets best_streak to the larger of best_streak and the new
\* current_streak; recording an incorrect game sets current_streak to 0 and
\* leaves total_wins and best_streak as they were; both add 1 to total_games
\* and the game's total score to total_score.
C28_RecordedGame ==
    UserUpdated =>
        LET old == call.user
            new == ret[1]
        IN  /\ new.total_games = old.total_games + 1
            /\ new.total_score = old.total_score + call.game.total_score
            /\ call.game.is_correct =>
                  /\ new.total_wins = old.total_wins + 1
                  /\ new.current_streak = old.current_streak + 1
                  /\ new.best_streak = IF old.best_streak >= new.current_streak
                                       THEN old.best_streak ELSE new.current_streak
            /\ ~call.game.is_correct =>
                  /\ new.current_streak = 0
                  /\ new.total_wins = old.total_wins
                  /\ new.best_streak = old.best_streak

\* A win recorded after two wins and a loss: the best streak stays 2.
C28_Witness ==
    /\ UserUpdated /\ call.game.is_correct
    /\ call.user.best_streak = 2 /\ call.user.current_streak = 0
    /\ ret[1].current_streak = 1 /\ ret[1].best_streak = 2 /\ ret[1].total_wins = 3

\* The UserStats row has been updated with the game of the call.
StatsUpdated == call.fn = "_update_category_stats_sync" /\ ret # NoRet

\* C29: after every category update mastery_level is
\* (games_won / games_played * 100) * min(games_played / 10, 1.0); it lies in
\* [0, 100], is 10 * games_won while games_played <= 10 and the win rate in
\* percent from games_played = 10 on.  (mastery_level is the fraction m[1]/m[2].)
C29_MasteryLevel ==
    StatsUpdated =>
        LET played == ret[1].games_played
            won == ret[1].games_won
            m == ret[1].mastery_level
            factor10 == IF played < 10 THEN played ELSE 10
        IN  /\ m[2] > 0
            /\ m[1] * played * 10 = won * 100 * factor10 * m[2]
            /\ 0 <= m[1] /\ m[1] <= 100 * m[2]
            /\ played <= 10 => m[1] = 10 * won * m[2]
            /\ played >= 10 => m[1] * played = won * 100 * m[2]

\* The twelfth game of a category, 8 of them won: mastery is 800/12 = 200/3.
C29_Witness ==
    /\ StatsUpdated /\ ret[1].games_played = 12 /\ ret[1].games_won = 8
    /\ ret[1].mastery_level = <<200, 3>>

\* The sum of the total scores of the GameSession rows with the indices in S.
RECURSIVE SumTotalScores(_)
SumTotalScores(S) ==
    IF S = {} THEN 0
    ELSE LET i == CHOOSE x \in S : TRUE
         IN  db.game_sessions[i].total_score + SumTotalScores(S \ {i})

RECURSIVE ResultsOf(_, _)
ResultsOf(u, n) ==
    IF n = 0 THEN <<>>
    ELSE IF db.game_sessions[n].user_id = u
         THEN Append(ResultsOf(u, n - 1), db.game_sessions[n].is_correct)
         ELSE ResultsOf(u, n - 1)

RECURSIVE SumUserStats(_, _, _)
SumUserStats(u, f, cs) ==
    IF cs = {} THEN 0
    ELSE LET c == CHOOSE x \in cs : TRUE
         IN  db.user_stats[<<u, c>>][f] + SumUserStats(u, f, cs \ {c})

C34_ReturnedQuestionWellFormed ==
    gen.pc = "returned" =>
        /\ Len(gen.result.options) = 4
        /\ gen.result.correct_answer \in {"A", "B", "C", "D"}

\* C35: a start, answer, skip, timeout or stats update for user a leaves the
\* registry entry, the game and timer, the User row and the UserStats rows of
\* every other user b unchanged.  A step for a is a command of a, the
\* continuation of a handler of a command of a, or the timeout task of a game
\* of a.
C35_OtherUsersUnchanged ==
    [][LET UserStateOf(u) ==
               [ entry |-> active_games[u],
                 games |-> [g \in {h \in 1..Len(games) : games[h].user_id = u} |-> games[g]],
                 has_user |-> HasUser(db, u),
                 user |-> IF HasUser(db, u) THEN db.users[u] ELSE NewUser,
                 user_stats |-> [k \in {j \in DOMAIN db.user_stats : j[1] = u} |->
                                    db.user_stats[k]] ]
           StepOf(a) ==
               \/ \E k \in Slots : TriviaCmd(k, a)
               \/ \E k \in Slots, raw \in RawAnswers : AnswerCmd(k, a, raw)
               \/ \E k \in Slots : SkipCmd(k, a)
               \/ \E k \in Slots : tasks[k].user = a /\ Resumes(k)
               \/ \E g \in 1..Len(games) :
                      games[g].user_id = a /\ (TimerFire(g) \/ TimerFinish(g))
       IN  \A a \in Users : StepOf(a) =>
               \A b \in Users \ {a} : UserStateOf(b)' = UserStateOf(b)]_vars

\* u1 has answered and its game is recorded and out of the registry while the
\* game of u2 is still active with its timer asleep.
C35_Witness ==
    /\ Len(games) = 2
    /\ \E g, h \in 1..2 :
           /\ games[g].user_id = "u1" /\ ~games[g].is_active
           /\ games[g].timeout_task = "cancelled"
           /\ games[h].user_id = "u2" /\ games[h].is_active
           /\ games[h].timeout_task = "sleeping" /\ active_games["u2"] = h
    /\ active_games["u1"] = NoGame
    /\ HasUser(db, "u1") /\ db.users["u1"].total_games = 1
    /\ HasUser(db, "u2") /\ db.users["u2"].total_games = 0

\* C36: get_user_stats is read-only.  It returns None for a user without a
\* row and creates none; it leaves every User row, UserStats row and
\* GameSession row as it was; the dict it returns carries the values of the
\* User row as last committed, not those a save in progress has pending.
C36_GetUserStatsReadOnly ==
    [][\A u \in Users : GetUserStatsCall(u) =>
          /\ db' = db
          /\ ~HasUser(db, u) => ret'[1].result = <<>> /\ ~HasUser(db', u)
          /\ HasUser(db, u) =>
                /\ Len(ret'[1].result) = 1
                /\ \A f \in {"total_games", "total_wins", "total_score", "current_streak",
                              "best_streak", "avg_response_time"} :
                       ret'[1].result[1][f] = db.users[u][f]]_vars

\* The stats of u1 have been read after one game was committed while the save
\* of a second game was waiting to commit: the dict has one game.
C36_Witness ==
    /\ ret # NoRet /\ ret[1].fn = "get_user_stats" /\ ret[1].discord_id = "u1"
    /\ Len(ret[1].result) = 1 /\ ret[1].result[1].total_games = 1
    /\ ret[1].result[1].win_rate = <<100, 1>>
    /\ \E t \in Threads :
           /\ threads[t].pc = "commit" /\ threads[t].has_user
           /\ threads[t].game.user_id = "u1" /\ threads[t].user.total_games = 2
    /\ db.users["u1"].total_games = 1

\* C37: get_or_create_user creates a row with all counters 0 on first
\* contact; a later call leaves the counters of every row as they are and
\* changes at most the username; and after any calls, two concurrent first
\* contacts included, there is at most one row for a discord_id.
C37_OneRowPerUser ==
    /\ [](\A i, j \in 1..Len(db.users) :
             db.users[i].discord_id = db.users[j].discord_id => i = j)
    /\ [][(\E t \in Threads :
              \/ GetOrCreateUserInsert(t)
              \/ GetOrCreateUserUpdate(t)
              \/ \E u \in Users, name \in {"ann", "anna"} : GetOrCreateUserQuery(t, u, name))
          => /\ Len(db.users') \in {Len(db.users), Len(db.users) + 1}
             /\ \A i \in 1..Len(db.users) :
                   /\ db.users'[i].discord_id = db.users[i].discord_id
                   /\ db.users'[i].counters = db.users[i].counters
             /\ Len(db.users') > Len(db.users) =>
                   LET c == db.users'[Len(db.users')].counters
                   IN  /\ c.total_games = 0 /\ c.total_wins = 0 /\ c.total_score = 0
                       /\ c.current_streak = 0 /\ c.best_streak = 0
                       /\ c.avg_response_time[1] = 0]_vars

\* Two first contacts of u1 ran at the same time.  The first created the row;
\* the row then got a game, and a later call a new username; the second is
\* refused by the index at last: one row, with the counters of the game.
C37_Witness ==
    /\ Len(db.users) = 1 /\ db.users[1].discord_id = "u1"
    /\ db.users[1].username = "anna" /\ db.users[1].counters.total_games = 1
    /\ ret # NoRet /\ ret[1].fn = "get_or_create_user"
    /\ ret[1].exc = "IntegrityError" /\ ret[1].username = "ann"
    /\ nret = MaxUserCalls

\* C38: generate_question ends with a question after at most two requests to
\* the provider: every step of it takes it further (called, first request,
\* second request, returned), a second request is made only after a first
\* one, the call returns a question and never raises, and whatever the second
\* request brings ends the call, with no further quality check.
C38_AtMostTwoProviderCalls ==
    /\ [](/\ gen.ncalls <= 2
          /\ gen.pc # "raised"
          /\ gen.pc \in {"called", "first"} => gen.ncalls = 0
          /\ gen.pc = "second" => gen.ncalls = 1
          /\ gen.pc = "returned" =>
                /\ gen.ncalls \in {1, 2}
                /\ gen.result.question # <<>> /\ Len(gen.result.options) = 4)
    /\ [][LET Rank(pc) == CASE pc = "called" -> 1 [] pc = "first" -> 2
                            [] pc = "second" -> 3 [] OTHER -> 4
          IN  /\ Rank(gen'.pc) > Rank(gen.pc)
              /\ gen.pc = "second" => gen'.pc = "returned"]_vars

\* The first question failed the quality check and so does the second, which
\* is returned all the same after two requests.
C38_Witness ==
    /\ gen.pc = "returned" /\ gen.ncalls = 2 /\ gen.exc = ""
    /\ ~ValidateQuestionQuality(gen.result)

====
